---------------------------- MODULE Spec2Model ----------------------------
(***************************************************************************)
(* SuperBatchVideoCompressor: a verification model.                        *)
(*                                                                         *)
(* The specifications that share this module:                              *)
(*   SpecBitrate  calculate_target_bitrate and its caller (src/SBVC.py)    *)
(*   SpecFlags    the corruption-tolerance flag injection                  *)
(*   SpecLegacy   SBVC.py: main, compress_video, build_encoding_commands   *)
(*   Spec         src/src/service.py: run_batch, process_file, encode_file *)
(*                on top of the scheduler's acquire / release              *)
(*   SpecAttempt  the same steps for a single file under every recovery,   *)
(*                audio and codec setting                                  *)
(*   SpecShutdown, SpecShutdownLive  the same steps with a signal arriving *)
(*                while the pool runs, without and with fairness           *)
(*   SpecLease    the scheduler alone: leases granted and released         *)
(*   SpecProbe    get_video_metadata_batch (src/src/core/video.py)         *)
(*   SpecOverrides, SpecValidate  apply_cli_overrides and validate_config  *)
(*                (src/src/config/loader.py)                               *)
(*   SpecTimeout  the timeouts of the encoder runs of one attempt          *)
(*   SpecCleanup  SpecAttempt in a directory where the rename can fail     *)
(*   SpecLive     two tasks on one slot, with fairness                     *)
(*   SpecDetect   the scheduler built from the encoders section and the    *)
(*                startup detection                                        *)
(*   SpecAudio    the audio arguments of the first command of an attempt   *)
(*   SpecArgv     the encoder command lines of the attempts of a plan      *)
(*   SpecProgress process_file's completed counter under its lock          *)
(* Each specification moves its own group of variables and leaves the      *)
(* other groups at their idle values.                                      *)
(***************************************************************************)
EXTENDS Integers, Sequences, FiniteSets, TLC

VARIABLES
    (* SpecBitrate *)
    bq,         \* the inputs of one planning call
    bres,       \* its result; bres.done is FALSE before the call
    (* SpecFlags *)
    argv0,      \* the command line handed to the injection
    argv1,      \* after one injection, <<>> before
    argv2,      \* after two injections, <<>> before
    (* SpecLegacy: SBVC.py *)
    lcfg,       \* the command-line options of the run
    lfile,      \* per input file: source codec, size class, output present at start
    lpc,        \* per file: "queued", "encoding" (an ffmpeg child runs), "done"
    lplan,      \* per file: encoding_commands, <<>> before it is built
    lidx,       \* per file: the loop index i of compress_video (1-based), 0 before
    lattempted, \* per file: the commands handed to execute_ffmpeg so far
    lres,       \* per file: what execute_ffmpeg returned for each finished command
    lerror,     \* per file: last_error as the index of the command it came from, 0 for None
    ltemp,      \* per file: the temp file, "absent", "partial" or "complete"
    lout,       \* per file: the output file, "absent", "old" or "new"
    lstatus,    \* per file: compress_video's status, "none" while it has not returned
    lexit,      \* main's return value, -1 while it runs
    (* Spec, SpecAttempt: src/src/service.py *)
    cfg,        \* the prepared config handed to run_batch
    tree,       \* the files get_video_files found (a set of file ids)
    finfo,      \* per file: stem, extension, size class, symlink escape, codec
    fs,         \* the output directory: path -> "absent", "old", "partial", "complete"
    wloc,       \* per task: the path that names the file its running child writes
    pc,         \* per task: where its worker stands
    att,        \* per task: index of the current attempt in its plan, 0 before
    lease,      \* per task: the encoder whose slot it holds, "none" without a lease
    in_flight,  \* per encoder: EncoderSlot.in_flight
    phase,      \* per task: which run of the attempt is going: "first", "audio", "tol"
    tolRuns,    \* per task: tolerant re-runs made in the current attempt
    result,     \* per task: the status of its TaskResult, "none" before
    mpc,        \* run_batch: "start", "pool", "returned", "raised"
    exitCode,   \* run_batch's return value, -1 before
    lost,       \* the tasks whose future raised when the results were gathered
    outBefore,  \* per task: whether its output path held a file when it started
    spawned,    \* per task: the kinds of subprocess run for it in this run
    run,        \* 1 in the first run of the batch, 2 in the run repeated after it
    fsAtRerun,  \* the output directory as the repeated run found it, <<>> before
    shutdown,   \* the global shutdown flag of the signal handler
    killed,     \* the tasks whose running child the handler has killed and whose
                \* worker has not yet seen the child's exit
    atSignal,   \* the tasks with a live child and the output directory when the
                \* signal arrived
    attemptRuns,\* history, kept in SpecAttempt only (<<>> elsewhere): per task the
                \* finished encoder runs of its current attempt, each with its
                \* kind ("first", "audio", "tol") and how it ended
    (* the specifications of single functions *)
    arg,        \* what the function under check is called with
    ret,        \* <<>> before the call, <<its result>> after
    (* SpecLease *)
    releases,   \* per task: the release() calls made on its current lease
                \* (<<>> outside SpecLease)
    (* SpecProgress *)
    progress    \* the completed counter of run_batch, its lock and the workers
                \* on their way through process_file (<<>> outside SpecProgress)

bvars == <<bq, bres>>
fvars == <<argv0, argv1, argv2>>
lvars == <<lcfg, lfile, lpc, lplan, lidx, lattempted, lres, lerror, ltemp, lout,
          lstatus, lexit>>
svars == <<cfg, tree, finfo, fs, wloc, pc, att, lease, in_flight, phase, tolRuns,
           result, mpc, exitCode, lost, outBefore, spawned, run, fsAtRerun,
           shutdown, killed, atSignal, attemptRuns>>
cvars == <<shutdown, killed, atSignal>>
pvars == <<arg, ret, releases, progress>>
vars == <<bq, bres, argv0, argv1, argv2,
          lcfg, lfile, lpc, lplan, lidx, lattempted, lres, lerror, ltemp, lout,
          lstatus, lexit,
          cfg, tree, finfo, fs, wloc, pc, att, lease, in_flight, phase, tolRuns,
          result, mpc, exitCode, lost, outBefore, spawned, run, fsAtRerun,
          shutdown, killed, atSignal, attemptRuns, arg, ret, releases, progress>>

IdleCallVars == arg = <<>> /\ ret = <<>> /\ releases = <<>> /\ progress = <<>>

NumLegacyFiles == 2
MaxLegacyWorkers == 2

Max(a, b) == IF a >= b THEN a ELSE b
Min(a, b) == IF a <= b THEN a ELSE b

(***************************************************************************)
(* BitratePlanner: src/SBVC.py calculate_target_bitrate                    *)
(***************************************************************************)
MIN_BITRATE == 500000
\* BITRATE_RATIO = 0.5, kept as a percentage so that int(x * ratio) stays
\* integer arithmetic
BITRATE_RATIO_PCT == 50

\* Python's int() of a float: truncation toward zero.
IntTrunc(num, den) ==
    IF num >= 0 THEN num \div den ELSE -((-num) \div den)

MutTierCap(short_side) ==
    IF short_side < 720 THEN 1500000
    ELSE IF short_side <= 1080 THEN 3000000
    ELSE IF short_side <= 1440 THEN 5000000
    ELSE 9000000

\* lines 503-510: the cap of the resolution tier
TierCap(short_side) ==
    IF short_side <= 720 THEN 1500000
    ELSE IF short_side <= 1080 THEN 3000000
    ELSE IF short_side <= 1440 THEN 5000000
    ELSE 9000000

calculate_target_bitrate(original_bitrate, width, height, force_bitrate, forced_value) ==
    IF force_bitrate THEN forced_value
    ELSE LET short_side == Min(width, height)
             max_bitrate == TierCap(short_side)
             new_bitrate == IntTrunc(original_bitrate * BITRATE_RATIO_PCT, 100)
         IN  Max(MIN_BITRATE, Min(new_bitrate, max_bitrate))

\* main(): force_bitrate = args.force_bitrate > 0, forced_bitrate = args.force_bitrate;
\* compress_video hands both to calculate_target_bitrate.
PlanBitrate(q) ==
    calculate_target_bitrate(q.bitrate, q.width, q.height, q.forced > 0, q.forced)

SourceBitrates == {0, 1, 999999, 1000000, 1000001, 2999999, 3000001, 6000000,
                   9999999, 10000001, 18000000, 40000000}
Sides == {0, 1, 480, 720, 721, 1080, 1081, 1440, 1441, 2160}
ForcedValues == {-1, 0, 1, 8000000}

BitrateQueries ==
    [bitrate : SourceBitrates, width : Sides, height : Sides, forced : ForcedValues]

NoResult == [done |-> FALSE, target |-> 0, swapped |-> 0]
NoQuery == [bitrate |-> 0, width |-> 0, height |-> 0, forced |-> 0]

InitBitrateVars == bq \in BitrateQueries /\ bres = NoResult
IdleBitrateVars == bq = NoQuery /\ bres = NoResult

(***************************************************************************)
(* Tolerance flags: add_ignore_decode_errors_flags, called by encode_file  *)
(* (service.py line 569).  Its body is in src/core/encoder.py; it is       *)
(* modelled from the specification text (section 4.7 e) and from           *)
(* tests/test_encoder.py.                                                  *)
(***************************************************************************)
HasPair(cmd, flag, val) ==
    \E i \in 1..(Len(cmd) - 1) : cmd[i] = flag /\ cmd[i + 1] = val

\* list.index("-i"): the first position of the input flag
InputIndex(cmd) ==
    CHOOSE i \in 1..Len(cmd) : cmd[i] = "-i" /\ \A j \in 1..(i - 1) : cmd[j] # "-i"

InsertBefore(cmd, i, extra) ==
    SubSeq(cmd, 1, i - 1) \o extra \o SubSeq(cmd, i, Len(cmd))

MutAlwaysInject(cmd) ==
    InsertBefore(cmd, InputIndex(cmd),
                 <<"-fflags", "+discardcorrupt", "-err_detect", "ignore_err">>)

add_ignore_decode_errors_flags(cmd) ==
    LET fflags == IF HasPair(cmd, "-fflags", "+discardcorrupt") THEN <<>>
                  ELSE <<"-fflags", "+discardcorrupt">>
        errdet == IF HasPair(cmd, "-err_detect", "ignore_err") THEN <<>>
                  ELSE <<"-err_detect", "ignore_err">>
    IN  InsertBefore(cmd, InputIndex(cmd), fflags \o errdet)

MaxPreInput == 4
PreInputTokens == {"-y", "-fflags", "+discardcorrupt", "-err_detect", "ignore_err",
                   "+genpts"}
PreInputs == UNION {[1..k -> PreInputTokens] : k \in 0..MaxPreInput}
\* Command lines as the command builder shapes them: binary, pre-input flags,
\* the input, the codec flags, the output.
Argvs ==
    {<<"ffmpeg">> \o pre \o <<"-i", "in.mp4", "-c:v", "hevc_nvenc", "out.mp4">> :
        pre \in PreInputs}

InitFlagVars == argv0 \in Argvs /\ argv1 = <<>> /\ argv2 = <<>>
IdleFlagVars == argv0 = <<>> /\ argv1 = <<>> /\ argv2 = <<>>


(***************************************************************************)
(* SBVC.py: the single-file program                                        *)
(***************************************************************************)
HwAccels == {"nvenc", "videotoolbox", "qsv", "none"}
OutputCodecs == {"hevc", "avc", "av1"}
SourceCodecs == {"h264", "wmv3"}

\* HW_ENCODERS[hw_accel].get(output_codec); "" stands for None / a missing key
HwEncoderTag(hw_accel, output_codec) ==
    CASE hw_accel = "nvenc" ->
            (CASE output_codec = "hevc" -> "hevc_nvenc"
               [] output_codec = "avc" -> "h264_nvenc"
               [] OTHER -> "av1_nvenc")
      [] hw_accel = "videotoolbox" ->
            (CASE output_codec = "hevc" -> "hevc_videotoolbox"
               [] output_codec = "avc" -> "h264_videotoolbox"
               [] OTHER -> "")
      [] hw_accel = "qsv" ->
            (CASE output_codec = "hevc" -> "hevc_qsv"
               [] output_codec = "avc" -> "h264_qsv"
               [] OTHER -> "av1_qsv")
      [] OTHER -> ""

\* SW_ENCODERS.get(output_codec, "libx264")
SwEncoderTag(output_codec) ==
    CASE output_codec = "hevc" -> "libx265"
      [] output_codec = "avc" -> "libx264"
      [] output_codec = "av1" -> "libsvtav1"
      [] OTHER -> "libx264"

\* supported_hw_decode_codecs of build_encoding_commands
LegacyHwDecodeCodecs == {"h264", "hevc", "av1", "vp9", "mpeg2video"}

MutCmdSwapsModes(enc, mode, tag, hwaccel, fps) ==
    [enc |-> enc,
     mode |-> IF mode = "SW_DECODE" THEN "SW_DECODE_LIMITED"
              ELSE IF mode = "SW_DECODE_LIMITED" THEN "SW_DECODE" ELSE mode,
     tag |-> tag, hwaccel |-> hwaccel, fps |-> fps]

\* One entry of encoding_commands: the encoder it runs on, how the source is
\* decoded, the -c:v tag, and whether -hwaccel and -vf fps=N are on the line.
Cmd(enc, mode, tag, hwaccel, fps) ==
    [enc |-> enc, mode |-> mode, tag |-> tag, hwaccel |-> hwaccel, fps |-> fps]

MutFallbackAlways(output_codec) == TRUE

\* if output_codec != "avc": the libx264 command is appended last
AvcFallbackDue(output_codec) == output_codec # "avc"

\* build_encoding_commands: the commands in priority order
build_encoding_commands(source_codec, c) ==
    LET hw_encoder == HwEncoderTag(c.hw_accel, c.output_codec)
        sw_encoder == SwEncoderTag(c.output_codec)
        full == IF hw_encoder # "" /\ source_codec \in LegacyHwDecodeCodecs
                THEN <<Cmd(c.hw_accel, "HW_DECODE", hw_encoder, TRUE, FALSE)>>
                ELSE <<>>
        mixed == IF hw_encoder # ""
                 THEN (IF c.limit_fps_software_decode
                       THEN <<Cmd(c.hw_accel, "SW_DECODE_LIMITED", hw_encoder, FALSE, TRUE)>>
                       ELSE <<>>)
                      \o <<Cmd(c.hw_accel, "SW_DECODE", hw_encoder, FALSE, FALSE)>>
                 ELSE <<>>
        soft == IF c.enable_software_encoding \/ c.hw_accel = "none"
                THEN (IF c.limit_fps_software_encode
                      THEN <<Cmd("cpu", "SW_DECODE_LIMITED", sw_encoder, FALSE, TRUE)>>
                      ELSE <<>>)
                     \o <<Cmd("cpu", "SW_DECODE", sw_encoder, FALSE, FALSE)>>
                     \o (IF AvcFallbackDue(c.output_codec)
                         THEN <<Cmd("cpu", "SW_DECODE", "libx264", FALSE, FALSE)>>
                         ELSE <<>>)
                ELSE <<>>
    IN  full \o mixed \o soft

LegacyFiles == 1..NumLegacyFiles

LegacyConfigs ==
    [hw_accel : HwAccels, output_codec : OutputCodecs,
     enable_software_encoding : BOOLEAN,
     limit_fps_software_decode : BOOLEAN, limit_fps_software_encode : BOOLEAN,
     workers : {1, MaxLegacyWorkers}]

\* What get_video_files found: per file the probed codec, whether the file is
\* below --min-size, and whether its output is already there.  The files have
\* distinct stems, so their output and temp paths differ.
LegacyInputs ==
    {[codec |-> "h264", small |-> FALSE, exists |-> FALSE],
     [codec |-> "wmv3", small |-> FALSE, exists |-> FALSE],
     [codec |-> "h264", small |-> TRUE, exists |-> FALSE],
     [codec |-> "wmv3", small |-> FALSE, exists |-> TRUE]}

InitLegacyVars ==
    /\ lcfg \in LegacyConfigs
    /\ lfile \in [LegacyFiles -> LegacyInputs]
    /\ lpc = [f \in LegacyFiles |-> "queued"]
    /\ lplan = [f \in LegacyFiles |-> <<>>]
    /\ lidx = [f \in LegacyFiles |-> 0]
    /\ lattempted = [f \in LegacyFiles |-> <<>>]
    /\ lres = [f \in LegacyFiles |-> <<>>]
    /\ lerror = [f \in LegacyFiles |-> 0]
    /\ ltemp = [f \in LegacyFiles |-> "absent"]
    /\ lout = [f \in LegacyFiles |-> IF lfile[f].exists THEN "old" ELSE "absent"]
    /\ lstatus = [f \in LegacyFiles |-> "none"]
    /\ lexit = -1

IdleLegacyVars ==
    /\ lcfg = <<>> /\ lfile = <<>> /\ lpc = <<>> /\ lplan = <<>> /\ lidx = <<>>
    /\ lattempted = <<>> /\ ltemp = <<>> /\ lout = <<>> /\ lstatus = <<>>
    /\ lres = <<>> /\ lerror = <<>>
    /\ lexit = -1

\* ThreadPoolExecutor(max_workers): the files a worker thread is busy with
LegacyBusy == {f \in LegacyFiles : lpc[f] = "encoding"}

MutLoopSkips(i) == i + 2

MutLoopNeverBreaks(success) == FALSE

\* if success: break -- whether the loop over encoding_commands is left
LoopBreaks(success) == success

\* for i, cmd_info in enumerate(encoding_commands): the command after command i
LegacyNextIndex(i) == i + 1

\* compress_video up to its first execute_ffmpeg: size check, probe, output and
\* temp path, existing-output check, build_encoding_commands.
LegacyStart(f) ==
    /\ lexit = -1
    /\ lpc[f] = "queued"
    /\ Cardinality(LegacyBusy) < lcfg.workers
    /\ LET plan == build_encoding_commands(lfile[f].codec, lcfg)
       IN  IF lfile[f].small
           THEN /\ lstatus' = [lstatus EXCEPT ![f] = "SKIP_SIZE"]
                /\ lpc' = [lpc EXCEPT ![f] = "done"]
                /\ UNCHANGED <<lplan, lidx, lattempted, ltemp>>
           ELSE IF lout[f] # "absent"
           THEN /\ lstatus' = [lstatus EXCEPT ![f] = "SKIP_EXISTS"]
                /\ lpc' = [lpc EXCEPT ![f] = "done"]
                /\ UNCHANGED <<lplan, lidx, lattempted, ltemp>>
           ELSE IF plan = <<>>
           THEN /\ lstatus' = [lstatus EXCEPT ![f] = "FAILED"]
                /\ lpc' = [lpc EXCEPT ![f] = "done"]
                /\ lplan' = [lplan EXCEPT ![f] = plan]
                /\ UNCHANGED <<lidx, lattempted, ltemp>>
           ELSE /\ lplan' = [lplan EXCEPT ![f] = plan]
                /\ lidx' = [lidx EXCEPT ![f] = LegacyNextIndex(0)]
                /\ lattempted' = [lattempted EXCEPT ![f] = <<plan[LegacyNextIndex(0)]>>]
                /\ ltemp' = [ltemp EXCEPT ![f] = "partial"]
                /\ lpc' = [lpc EXCEPT ![f] = "encoding"]
                /\ UNCHANGED lstatus
    /\ UNCHANGED <<lcfg, lfile, lres, lerror, lout, lexit, bvars, fvars, svars, pvars>>

\* The ffmpeg child of command lidx[f] exits and compress_video goes on: on
\* success it leaves the loop and renames the temp file; on failure it removes
\* the temp file and runs the next command, or returns the failure after the last.
LegacyChildExit(f, ok) ==
    /\ lpc[f] = "encoding"
    /\ lres' = [lres EXCEPT ![f] = Append(@, IF ok THEN "ok" ELSE "failed")]
    /\ lerror' = [lerror EXCEPT ![f] = IF ok THEN @ ELSE lidx[f]]
    /\ IF LoopBreaks(ok)
       THEN /\ ltemp' = [ltemp EXCEPT ![f] = "absent"]
            /\ lout' = [lout EXCEPT ![f] = "new"]
            /\ lstatus' = [lstatus EXCEPT ![f] = "SUCCESS"]
            /\ lpc' = [lpc EXCEPT ![f] = "done"]
            /\ UNCHANGED <<lidx, lattempted>>
       ELSE LET n == LegacyNextIndex(lidx[f])
            IN  IF n <= Len(lplan[f])
                THEN /\ lidx' = [lidx EXCEPT ![f] = n]
                     /\ lattempted' = [lattempted EXCEPT ![f] = Append(@, lplan[f][n])]
                     /\ ltemp' = [ltemp EXCEPT ![f] = "partial"]
                     /\ UNCHANGED <<lout, lstatus, lpc>>
                ELSE /\ ltemp' = [ltemp EXCEPT ![f] = "absent"]
                     /\ lstatus' = [lstatus EXCEPT ![f] = "FAILED"]
                     /\ lpc' = [lpc EXCEPT ![f] = "done"]
                     /\ UNCHANGED <<lidx, lattempted, lout>>
    /\ UNCHANGED <<lcfg, lfile, lplan, lexit, bvars, fvars, svars, pvars>>

\* main after the pool has drained: the counts and the return value
LegacyMainReturn ==
    /\ lexit = -1
    /\ \A f \in LegacyFiles : lpc[f] = "done"
    /\ LET fail_count == Cardinality({f \in LegacyFiles :
                            lstatus[f] \notin {"SUCCESS", "SKIP_SIZE", "SKIP_EXISTS"}})
       IN  lexit' = IF fail_count = 0 THEN 0 ELSE 1
    /\ UNCHANGED <<lcfg, lfile, lpc, lplan, lidx, lattempted, lres, lerror, ltemp,
                   lout, lstatus,
                   bvars, fvars, svars, pvars>>

NextLegacy ==
    \/ \E f \in LegacyFiles : LegacyStart(f)
    \/ \E f \in LegacyFiles, ok \in BOOLEAN : LegacyChildExit(f, ok)
    \/ LegacyMainReturn

(***************************************************************************)
(* The package pipeline: run_batch, process_file and encode_file of        *)
(* src/src/service.py, resolve_output_paths of src/src/core/compressor.py, *)
(* and the scheduler (src/scheduler/advanced.py, not among the sources:    *)
(* its slots, leases and plan follow the specification's sections 4.6 and  *)
(* 4.7).                                                                   *)
(***************************************************************************)
NumFiles == 2
MaxTotal == 2
MaxSlots == 2
MaxIgnoreRetries == 2

Encoders == {"nvenc", "qsv", "videotoolbox", "cpu"}
HwPriority == <<"nvenc", "qsv", "videotoolbox">>
Files == 1..NumFiles

NoPath == <<>>
Unlinked == <<"(unlinked)">>

\* files.min_size_mb, at its default, and the threshold of the size check
MIN_FILE_SIZE_MB == 100
MinSizeBytes == MIN_FILE_SIZE_MB * 1024 * 1024

\* encode_file line 380: file_size < min_file_size * 1024 * 1024
MutSkipAtThreshold(size) == size <= MinSizeBytes
BelowMinSize(size) == size < MinSizeBytes

\* the files a walk of the input tree can find; the stem is the name without
\* its extension, split at a leading "tmp_"
Candidates ==
    << [stem |-> <<"a">>, ext |-> "mkv", size |-> MinSizeBytes, escapes |-> FALSE, codec |-> "wmv3"],
       [stem |-> <<"a">>, ext |-> "avi", size |-> MinSizeBytes + 1, escapes |-> FALSE, codec |-> "wmv3"],
       [stem |-> <<"tmp_", "a">>, ext |-> "mkv", size |-> 2 * MinSizeBytes, escapes |-> FALSE, codec |-> "wmv3"],
       [stem |-> <<"s">>, ext |-> "mkv", size |-> MinSizeBytes - 1, escapes |-> FALSE, codec |-> "h264"],
       [stem |-> <<"l">>, ext |-> "mkv", size |-> 2 * MinSizeBytes, escapes |-> TRUE, codec |-> "h264"] >>

NoFile == [stem |-> <<>>, ext |-> "", size |-> 0, escapes |-> FALSE, codec |-> ""]

\* resolve_output_paths: the output keeps the stem and takes the suffix .mp4,
\* the temp file is its sibling named "tmp_" + name; a file outside the input
\* root raises ValueError
resolve_output_paths(file) ==
    [raises |-> file.escapes,
     out |-> file.stem,
     tmp |-> <<"tmp_">> \o file.stem]

OutputOf(t) == resolve_output_paths(finfo[t]).out
TempOf(t) == resolve_output_paths(finfo[t]).tmp

FsPaths ==
    UNION {{resolve_output_paths(Candidates[i]).out,
            resolve_output_paths(Candidates[i]).tmp} : i \in 1..Len(Candidates)}

\* the encoder tags of build_hw_encode_command / build_sw_encode_command
MutBuilderAlwaysTag(enc, codec) == TRUE
BuilderHasTag(enc, codec) == ~(enc = "videotoolbox" /\ codec = "av1")

\* SUPPORTED_HW_DECODE_CODECS per encoder
HwDecodeWhitelist(enc) ==
    CASE enc = "nvenc" -> {"h264", "hevc", "vp9", "av1", "mpeg2video", "mpeg4"}
      [] enc = "qsv" -> {"h264", "hevc", "vp9", "av1", "mpeg2video", "vc1", "wmv3"}
      [] enc = "videotoolbox" -> {"h264", "hevc", "prores", "mpeg4"}
      [] OTHER -> {}

\* the attempts one encoder contributes to a plan
EncoderAttempts(enc, source_codec, output_codec) ==
    IF enc = "cpu"
    THEN << [enc |-> "cpu", mode |-> "SW_DECODE_LIMITED"],
            [enc |-> "cpu", mode |-> "SW_DECODE"] >>
    ELSE (IF source_codec \in HwDecodeWhitelist(enc) /\ BuilderHasTag(enc, output_codec)
          THEN << [enc |-> enc, mode |-> "HW_DECODE"] >> ELSE << >>)
         \o (IF BuilderHasTag(enc, output_codec)
             THEN << [enc |-> enc, mode |-> "SW_DECODE_LIMITED"] >> ELSE << >>)
         \o << [enc |-> enc, mode |-> "SW_DECODE"] >>

RECURSIVE HwAttempts(_, _, _, _)
HwAttempts(i, slots, source_codec, output_codec) ==
    IF i > Len(HwPriority) THEN << >>
    ELSE (IF slots[HwPriority[i]] > 0
          THEN EncoderAttempts(HwPriority[i], source_codec, output_codec)
          ELSE << >>)
         \o HwAttempts(i + 1, slots, source_codec, output_codec)

\* the AttemptPlan of a task: the enabled hardware encoders in priority
\* order, then cpu
AttemptPlan(c, source_codec) ==
    HwAttempts(1, c.slots, source_codec, c.output_codec)
    \o (IF c.slots["cpu"] > 0
        THEN EncoderAttempts("cpu", source_codec, c.output_codec) ELSE << >>)

PlanOf(t) == AttemptPlan(cfg, finfo[t].codec)

\* run_batch lines 72-83: the tolerant retry limit taken from the config
NormalizeRetries(raw) == IF raw.int THEN Max(0, raw.val) ELSE 1

RawRetryValues ==
    {[int |-> TRUE, val |-> v] : v \in {-1, 0, 1, MaxIgnoreRetries}}
    \cup {[int |-> FALSE, val |-> 0]}

Slots(n, q, v, c) == [e \in Encoders |->
    CASE e = "nvenc" -> n [] e = "qsv" -> q [] e = "videotoolbox" -> v [] OTHER -> c]

\* the configs of the concurrent runs: two encoders, varying capacities
BatchConfigs ==
    {[skip_existing |-> sk, retry_decode_errors_with_ignore |-> TRUE,
      max_ignore_raw |-> [int |-> TRUE, val |-> 1], audio_copy_fallback |-> FALSE,
      output_codec |-> "avc", max_total_concurrent |-> sc[1], slots |-> sc[2]] :
        sk \in BOOLEAN,
        sc \in {<<MaxTotal, Slots(1, 0, 0, 1)>>,
                <<MaxTotal, Slots(MaxSlots, 0, 0, 1)>>,
                <<1, Slots(MaxSlots, 0, 0, 1)>>}}

\* the configs of the single-task runs: every recovery and audio setting
AttemptConfigs ==
    {[skip_existing |-> sk, retry_decode_errors_with_ignore |-> re,
      max_ignore_raw |-> raw, audio_copy_fallback |-> au,
      output_codec |-> oc, max_total_concurrent |-> 1, slots |-> Slots(0, 0, 1, 1)] :
        sk \in BOOLEAN, re \in BOOLEAN, raw \in RawRetryValues, au \in BOOLEAN,
        oc \in {"avc", "av1"}}

\* the walks: which candidates the tree holds, in walk order
BatchTrees ==
    {w \in [Files -> 1..Len(Candidates)] : \A i, j \in Files : i < j => w[i] < w[j]}

AttemptTrees == {[f \in Files |-> IF f = 1 THEN i ELSE 0] : i \in {1, 4}}

NoSignal == [killed |-> {}, fs |-> <<>>]

ServiceInit(configs, walks) ==
    /\ cfg \in configs
    /\ \E w \in walks :
          /\ tree = {f \in Files : w[f] > 0}
          /\ finfo = [f \in Files |-> IF w[f] > 0 THEN Candidates[w[f]] ELSE NoFile]
    /\ \E pre \in {{}, {<<"a">>}} :
          fs = [p \in FsPaths |-> IF p \in pre THEN "old" ELSE "absent"]
    /\ wloc = [f \in Files |-> NoPath]
    /\ pc = [f \in Files |-> IF f \in tree THEN "found" ELSE "absent"]
    /\ att = [f \in Files |-> 0]
    /\ lease = [f \in Files |-> "none"]
    /\ in_flight = [e \in Encoders |-> 0]
    /\ phase = [f \in Files |-> "none"]
    /\ tolRuns = [f \in Files |-> 0]
    /\ result = [f \in Files |-> "none"]
    /\ mpc = "start"
    /\ exitCode = -1
    /\ lost = {}
    /\ outBefore = [f \in Files |-> FALSE]
    /\ spawned = [f \in Files |-> {}]
    /\ run = 1
    /\ fsAtRerun = <<>>
    /\ shutdown = FALSE
    /\ killed = {}
    /\ atSignal = NoSignal

IdleServiceVars ==
    /\ cfg = <<>> /\ tree = {} /\ finfo = <<>> /\ fs = <<>> /\ wloc = <<>>
    /\ pc = <<>> /\ att = <<>> /\ lease = <<>> /\ in_flight = <<>>
    /\ phase = <<>> /\ tolRuns = <<>> /\ result = <<>>
    /\ mpc = "idle" /\ exitCode = -1 /\ lost = {} /\ outBefore = <<>>
    /\ spawned = <<>> /\ run = 0 /\ fsAtRerun = <<>>
    /\ shutdown = FALSE /\ killed = {} /\ atSignal = NoSignal /\ attemptRuns = <<>>

Exists(f, p) == f[p] # "absent"

Busy(t) == pc[t] \in {"acquire", "leased", "running", "commit", "replace", "released"}
Finished(t) == pc[t] \in {"done", "preskipped"}

\* the retry limit encode_file works with
RetryLimit == NormalizeRetries(cfg.max_ignore_raw)

\* encode_file line 572: for attempt in range(1, max_ignore_retries_per_method + 1)
MutLoopOneMore(runs, limit) == runs < limit + 1
TolerantRetryAllowed(runs, limit) == runs < limit

\* EncoderSlot: a lease may be granted while the encoder and the scheduler
\* have room
MutAcquireIgnoresSlot(e) == TRUE
MutNeverGranted(e) == FALSE
CanAcquire(e) ==
    /\ in_flight[e] < cfg.slots[e]
    /\ Cardinality({u \in Files : lease[u] # "none"}) < cfg.max_total_concurrent

\* the scheduler calls the encode function of an attempt once its lease is granted
MutEncodeBeforeLease(t) == pc[t] \in {"acquire", "leased"}
EncodeCallable(t) == pc[t] = "leased"

\* the files a removal or a rename of path p takes away from the children
\* that write it
Moved(w, from, to) == [u \in Files |-> IF w[u] = from THEN to ELSE w[u]]

\* Lease.release(): the first call on a granted lease gives the slot back,
\* any later call changes nothing
MutReleaseUnguarded(t) == TRUE
MutSlotNeverReturned(t) == FALSE
LeaseHeld(t) == lease[t] # "none"

LeaseRelease(t) ==
    /\ in_flight' = IF LeaseHeld(t)
                    THEN [in_flight EXCEPT ![PlanOf(t)[att[t]].enc] = @ - 1]
                    ELSE in_flight
    /\ lease' = [lease EXCEPT ![t] = "none"]

MutReturnedKeepsLease(t, r) ==
    LET more == r = "FAILED" /\ att[t] < Len(PlanOf(t))
    IN  /\ UNCHANGED <<in_flight, lease>>
        /\ phase' = [phase EXCEPT ![t] = "none"]
        /\ tolRuns' = [tolRuns EXCEPT ![t] = 0]
        /\ pc' = [pc EXCEPT ![t] = IF more THEN "acquire" ELSE "done"]
        /\ att' = [att EXCEPT ![t] = IF more THEN @ + 1 ELSE @]
        /\ result' = [result EXCEPT ![t] = IF more THEN @ ELSE r]

\* encode_file has returned its TaskResult to schedule_task: the lease is
\* released, and the task ends or goes on to its next attempt
Returned(t, r) ==
    LET more == r = "FAILED" /\ att[t] < Len(PlanOf(t))
    IN  /\ LeaseRelease(t)
        /\ phase' = [phase EXCEPT ![t] = "none"]
        /\ tolRuns' = [tolRuns EXCEPT ![t] = 0]
        /\ pc' = [pc EXCEPT ![t] = IF more THEN "acquire" ELSE "done"]
        /\ att' = [att EXCEPT ![t] = IF more THEN @ + 1 ELSE @]
        /\ result' = [result EXCEPT ![t] = IF more THEN @ ELSE r]

\* run_batch up to the worker pool: the sample mapping and the pre-check
\* loop resolve the paths of the files outside any try
PreCheck ==
    /\ mpc = "start"
    /\ IF \E f \in tree : resolve_output_paths(finfo[f]).raises
       THEN /\ mpc' = "raised"
            /\ UNCHANGED <<pc, result>>
       ELSE /\ mpc' = "pool"
            /\ pc' = [f \in Files |->
                        IF f \notin tree THEN "absent"
                        ELSE IF cfg.skip_existing /\ Exists(fs, OutputOf(f))
                             THEN "preskipped" ELSE "queued"]
            /\ result' = [f \in Files |->
                        IF f \in tree /\ cfg.skip_existing /\ Exists(fs, OutputOf(f))
                        THEN "SKIP_EXISTS" ELSE "none"]
    /\ UNCHANGED <<cfg, tree, finfo, fs, wloc, att, lease, in_flight, phase, tolRuns,
                   exitCode, lost, outBefore, spawned, run, fsAtRerun, bvars, fvars, lvars, cvars, attemptRuns, pvars>>

\* a pool thread takes the next submitted file and enters schedule_task
WorkerStart(t) ==
    /\ mpc = "pool"
    /\ pc[t] = "queued"
    /\ \A u \in Files : pc[u] = "queued" => t <= u
    /\ Cardinality({u \in Files : Busy(u)}) < cfg.max_total_concurrent
    /\ IF Len(PlanOf(t)) = 0
       THEN /\ pc' = [pc EXCEPT ![t] = "done"]
            /\ result' = [result EXCEPT ![t] = "FAILED"]
            /\ UNCHANGED att
       ELSE /\ pc' = [pc EXCEPT ![t] = "acquire"]
            /\ att' = [att EXCEPT ![t] = 1]
            /\ UNCHANGED result
    /\ outBefore' = [outBefore EXCEPT ![t] = Exists(fs, OutputOf(t))]
    /\ UNCHANGED <<cfg, tree, finfo, fs, wloc, lease, in_flight, phase, tolRuns,
                   mpc, exitCode, lost, spawned, run, fsAtRerun, bvars, fvars, lvars, cvars, attemptRuns, pvars>>

\* the scheduler grants the lease of the current attempt
Acquire(t) ==
    /\ pc[t] = "acquire"
    /\ ~shutdown
    /\ LET e == PlanOf(t)[att[t]].enc
       IN  /\ CanAcquire(e)
           /\ in_flight' = [in_flight EXCEPT ![e] = @ + 1]
           /\ lease' = [lease EXCEPT ![t] = e]
    /\ pc' = [pc EXCEPT ![t] = "leased"]
    /\ UNCHANGED <<cfg, tree, finfo, fs, wloc, att, phase, tolRuns, result,
                   mpc, exitCode, lost, outBefore, spawned, run, fsAtRerun, bvars, fvars, lvars, cvars, attemptRuns, pvars>>

\* encode_file from its entry to the start of the first encoder run
EncodeBegin(t) ==
    /\ EncodeCallable(t)
    /\ ~shutdown
    /\ attemptRuns' = IF attemptRuns = <<>> THEN attemptRuns
                      ELSE [attemptRuns EXCEPT ![t] = <<>>]
    /\ LET e == PlanOf(t)[att[t]].enc
           probe == [spawned EXCEPT ![t] = @ \cup {"probe"}]
       IN  IF BelowMinSize(finfo[t].size)
           THEN Returned(t, "SKIP_SIZE") /\ UNCHANGED <<fs, wloc, spawned>>
           ELSE IF cfg.skip_existing /\ Exists(fs, OutputOf(t))
           THEN Returned(t, "SKIP_EXISTS") /\ spawned' = probe /\ UNCHANGED <<fs, wloc>>
           ELSE IF ~BuilderHasTag(e, cfg.output_codec)
           THEN Returned(t, "FAILED") /\ spawned' = probe /\ UNCHANGED <<fs, wloc>>
           ELSE /\ fs' = [fs EXCEPT ![TempOf(t)] = "partial"]
                /\ wloc' = [wloc EXCEPT ![t] = TempOf(t)]
                /\ spawned' = [spawned EXCEPT ![t] = @ \cup {"probe", "encoder"}]
                /\ pc' = [pc EXCEPT ![t] = "running"]
                /\ phase' = [phase EXCEPT ![t] = "first"]
                /\ tolRuns' = [tolRuns EXCEPT ![t] = 0]
                /\ UNCHANGED <<att, lease, in_flight, result>>
    /\ UNCHANGED <<cfg, tree, finfo, mpc, exitCode, lost, outBefore, run, fsAtRerun,
                   bvars, fvars, lvars, cvars, pvars>>

\* how execute_ffmpeg can come back: success, a failure whose error text
\* holds a decode-corruption marker, the timeout error, any other failure
Outcomes == {"ok", "corrupt", "timeout", "other"}

MutTimeoutIsCorruption(o) == o \in {"corrupt", "timeout"}

\* is_decode_corruption_error(error): the error text holds a corruption marker
is_decode_corruption_error(o) == o = "corrupt"

MutAudioSkipsTimeout(t, o) ==
    o \notin {"ok", "timeout"} /\ phase[t] = "first" /\ cfg.audio_copy_fallback

\* encode_file line 530: not success and audio_copy_fallback and
\* retry_audio_args is not None, tested once, after the first run
AudioFallbackDue(t, o) ==
    o # "ok" /\ phase[t] = "first" /\ cfg.audio_copy_fallback

\* the running child of the attempt exits; encode_file re-runs the attempt
\* (audio fallback first, then the tolerant retries), or cleans up and
\* fails, or goes on to the commit
ChildExit(t, o) ==
    /\ pc[t] = "running"
    /\ t \in killed => o # "ok"
    /\ killed' = killed \ {t}
    /\ attemptRuns' = IF attemptRuns = <<>> THEN attemptRuns
                      ELSE [attemptRuns EXCEPT ![t] = Append(@, [kind |-> phase[t], out |-> o])]
    /\ LET w == wloc[t]
           shared == \E u \in Files : u # t /\ pc[u] = "running" /\ wloc[u] = w
           fsExit == IF o = "ok" /\ w \in FsPaths
                     THEN [fs EXCEPT ![w] = IF shared THEN "partial" ELSE "complete"]
                     ELSE fs
           wlExit == [wloc EXCEPT ![t] = NoPath]
           failed == o # "ok"
           audio == AudioFallbackDue(t, o)
           tol == /\ failed /\ ~audio
                  /\ \/ /\ phase[t] \in {"first", "audio"}
                        /\ cfg.retry_decode_errors_with_ignore
                        /\ RetryLimit > 0
                        /\ is_decode_corruption_error(o)
                     \/ /\ phase[t] = "tol"
                        /\ TolerantRetryAllowed(tolRuns[t], RetryLimit)
       IN  IF audio \/ tol
           THEN /\ fs' = [fsExit EXCEPT ![TempOf(t)] = "partial"]
                /\ wloc' = [wlExit EXCEPT ![t] = TempOf(t)]
                /\ phase' = [phase EXCEPT ![t] = IF audio THEN "audio" ELSE "tol"]
                /\ tolRuns' = [tolRuns EXCEPT ![t] = IF tol THEN @ + 1 ELSE @]
                /\ UNCHANGED <<pc, att, lease, in_flight, result>>
           ELSE IF failed
           THEN /\ fs' = [fsExit EXCEPT ![TempOf(t)] = "absent"]
                /\ wloc' = Moved(wlExit, TempOf(t), Unlinked)
                /\ Returned(t, "FAILED")
           ELSE /\ fs' = fsExit
                /\ wloc' = wlExit
                /\ pc' = [pc EXCEPT ![t] = "commit"]
                /\ UNCHANGED <<att, lease, in_flight, phase, tolRuns, result>>
    /\ UNCHANGED <<cfg, tree, finfo, mpc, exitCode, lost, outBefore, spawned, run, fsAtRerun, bvars, fvars, lvars,
                   shutdown, atSignal, pvars>>

\* encode_file lines 623-626: the last look at the output before the move
CommitCheck(t) ==
    /\ pc[t] = "commit"
    /\ IF cfg.skip_existing /\ Exists(fs, OutputOf(t))
       THEN IF Exists(fs, TempOf(t))
            THEN /\ fs' = [fs EXCEPT ![TempOf(t)] = "absent"]
                 /\ wloc' = Moved(wloc, TempOf(t), Unlinked)
                 /\ Returned(t, "SKIP_EXISTS")
            ELSE Returned(t, "FAILED") /\ UNCHANGED <<fs, wloc>>
       ELSE /\ pc' = [pc EXCEPT ![t] = "replace"]
            /\ UNCHANGED <<fs, wloc, att, lease, in_flight, phase, tolRuns, result>>
    /\ UNCHANGED <<cfg, tree, finfo, mpc, exitCode, lost, outBefore, spawned, run, fsAtRerun, bvars, fvars, lvars, cvars, attemptRuns, pvars>>

\* encode_file line 627: os.replace(temp_filename, new_filename)
CommitReplace(t) ==
    /\ pc[t] = "replace"
    /\ IF Exists(fs, TempOf(t))
       THEN /\ fs' = [fs EXCEPT ![OutputOf(t)] = fs[TempOf(t)], ![TempOf(t)] = "absent"]
            /\ wloc' = Moved(Moved(wloc, OutputOf(t), Unlinked), TempOf(t), OutputOf(t))
            /\ Returned(t, "SUCCESS")
       ELSE Returned(t, "FAILED") /\ UNCHANGED <<fs, wloc>>
    /\ UNCHANGED <<cfg, tree, finfo, mpc, exitCode, lost, outBefore, spawned, run, fsAtRerun, bvars, fvars, lvars, cvars, attemptRuns, pvars>>

\* run_batch after the pool has drained: the results of the futures are
\* gathered (a future that raised is logged and adds nothing), counted, and
\* the return value follows from the count of failures
MainReturn(raisedSet) ==
    /\ mpc = "pool"
    /\ \A f \in tree : Finished(f)
    /\ raisedSet \subseteq {f \in tree : pc[f] = "done"}
    /\ LET results == {f \in tree : Finished(f)} \ raisedSet
           success_count == Cardinality({f \in results : result[f] = "SUCCESS"})
           skip_exists_count == Cardinality({f \in results : result[f] = "SKIP_EXISTS"})
           skip_size_count == Cardinality({f \in results : result[f] = "SKIP_SIZE"})
           fail_count == Cardinality(results) - success_count
                         - skip_exists_count - skip_size_count
       IN  exitCode' = IF fail_count = 0 THEN 0 ELSE 1
    /\ lost' = raisedSet
    /\ mpc' = "returned"
    /\ UNCHANGED <<cfg, tree, finfo, fs, wloc, pc, att, lease, in_flight, phase, tolRuns,
                   result, outBefore, spawned, run, fsAtRerun, bvars, fvars, lvars, cvars, attemptRuns, pvars>>

\* the batch is run again over the same input tree with skip_existing on,
\* after a run in which every file succeeded or was skipped
Rerun ==
    /\ mpc = "returned" /\ run = 1
    /\ lost = {}
    /\ \A f \in tree : result[f] \in {"SUCCESS", "SKIP_SIZE", "SKIP_EXISTS"}
    /\ run' = 2
    /\ fsAtRerun' = fs
    /\ cfg' = [cfg EXCEPT !.skip_existing = TRUE]
    /\ wloc' = [f \in Files |-> NoPath]
    /\ pc' = [f \in Files |-> IF f \in tree THEN "found" ELSE "absent"]
    /\ att' = [f \in Files |-> 0]
    /\ result' = [f \in Files |-> "none"]
    /\ outBefore' = [f \in Files |-> FALSE]
    /\ spawned' = [f \in Files |-> {}]
    /\ mpc' = "start"
    /\ exitCode' = -1
    /\ UNCHANGED <<tree, finfo, fs, lease, in_flight, phase, tolRuns, lost,
                   bvars, fvars, lvars, cvars, attemptRuns, pvars>>

Next ==
    \/ PreCheck
    \/ \E t \in Files : WorkerStart(t)
    \/ \E t \in Files : Acquire(t)
    \/ \E t \in Files : EncodeBegin(t)
    \/ \E t \in Files, o \in Outcomes : ChildExit(t, o)
    \/ \E t \in Files : CommitCheck(t)
    \/ \E t \in Files : CommitReplace(t)
    \/ \E raisedSet \in SUBSET Files : MainReturn(raisedSet)
    \/ Rerun

Init == IdleCallVars /\ IdleBitrateVars /\ IdleFlagVars /\ IdleLegacyVars /\ ServiceInit(BatchConfigs, BatchTrees) /\ attemptRuns = <<>>
Spec == Init /\ [][Next]_vars

\* encode_file lines 627-631: os.replace raises (the output path is a
\* directory, the output directory refuses the write); the except clause
\* returns the failure and leaves the files as they are
CommitReplaceRaises(t) ==
    /\ pc[t] = "replace"
    /\ Exists(fs, TempOf(t))
    /\ Returned(t, "FAILED")
    /\ UNCHANGED <<fs, wloc>>
    /\ UNCHANGED <<cfg, tree, finfo, mpc, exitCode, lost, outBefore, spawned, run, fsAtRerun, bvars, fvars, lvars, cvars, attemptRuns, pvars>>

\* the single-file runs in an output directory where a rename can fail
NextCleanup ==
    \/ Next
    \/ \E t \in Files : CommitReplaceRaises(t)

InitAttempt == IdleCallVars /\ IdleBitrateVars /\ IdleFlagVars /\ IdleLegacyVars /\ ServiceInit(AttemptConfigs, AttemptTrees) /\ attemptRuns = [f \in Files |-> <<>>]
SpecAttempt == InitAttempt /\ [][Next]_vars
SpecCleanup == InitAttempt /\ [][NextCleanup]_vars

\* the signal handler: SIGINT or SIGTERM sets the shutdown flag and kills
\* every child in the process table
Signal ==
    /\ mpc = "pool"
    /\ ~shutdown
    /\ shutdown' = TRUE
    /\ killed' = {t \in Files : pc[t] = "running"}
    /\ atSignal' = [killed |-> {t \in Files : pc[t] = "running"}, fs |-> fs]
    /\ UNCHANGED <<cfg, tree, finfo, fs, wloc, pc, att, lease, in_flight, phase, tolRuns,
                   result, mpc, exitCode, lost, outBefore, spawned, run, fsAtRerun,
                   attemptRuns, bvars, fvars, lvars, pvars>>

\* the flag is found set before an attempt starts: a waiting acquire returns
\* Cancelled, a granted lease is given back, and the task ends
Cancel(t) ==
    /\ pc[t] \in {"acquire", "leased"}
    /\ shutdown
    /\ Returned(t, "CANCELLED")
    /\ UNCHANGED <<cfg, tree, finfo, fs, wloc, mpc, exitCode, lost, outBefore, spawned,
                   run, fsAtRerun, bvars, fvars, lvars, cvars, attemptRuns, pvars>>

\* the exit code of the program: 130 when a signal interrupted the run,
\* the return value of run_batch otherwise
ProcessExit == IF shutdown THEN 130 ELSE exitCode

\* the config of the interrupted runs: one nvenc slot for two workers, with
\* and without the audio copy fallback
ShutdownConfigs ==
    {[skip_existing |-> FALSE, retry_decode_errors_with_ignore |-> TRUE,
      max_ignore_raw |-> [int |-> TRUE, val |-> 1], audio_copy_fallback |-> au,
      output_codec |-> "avc", max_total_concurrent |-> 2, slots |-> Slots(1, 0, 0, 0)] :
        au \in BOOLEAN}

\* a.mkv and s.mkv: two files with distinct output and temp paths
ShutdownTrees == {[f \in Files |-> IF f = 1 THEN 1 ELSE IF f = 2 THEN 4 ELSE 0]}

NextShutdown ==
    \/ PreCheck
    \/ \E t \in Files : WorkerStart(t)
    \/ \E t \in Files : Acquire(t)
    \/ \E t \in Files : EncodeBegin(t)
    \/ \E t \in Files, o \in Outcomes : ChildExit(t, o)
    \/ \E t \in Files : CommitCheck(t)
    \/ \E t \in Files : CommitReplace(t)
    \/ \E raisedSet \in SUBSET Files : MainReturn(raisedSet)
    \/ Signal
    \/ \E t \in Files : Cancel(t)

InitShutdown == IdleCallVars /\ IdleBitrateVars /\ IdleFlagVars /\ IdleLegacyVars /\ ServiceInit(ShutdownConfigs, ShutdownTrees) /\ attemptRuns = <<>>
SpecShutdown == InitShutdown /\ [][NextShutdown]_vars

\* the worker threads and the children run on their own: a step that can be
\* taken is taken
SpecShutdownLive == InitShutdown /\ [][NextShutdown]_vars /\ WF_vars(NextShutdown)

\* the same two tasks on one hardware slot with no signal: the threads are
\* scheduled and every child exits or is stopped by its timeout, so a step
\* that can be taken is taken
SpecLive == InitShutdown /\ [][Next]_vars /\ WF_vars(Next)

(***************************************************************************)
(* SpecLease: the scheduler alone.  The attempts of the tasks are reduced   *)
(* to the life of their leases: granted, released any number of times, and *)
(* followed by the lease of the next attempt.                              *)
(***************************************************************************)
MaxReleases == 3

\* release() is called on the lease of the current attempt, held or not
Release(t) ==
    /\ pc[t] \in {"leased", "released"}
    /\ releases[t] < MaxReleases
    /\ LeaseRelease(t)
    /\ pc' = [pc EXCEPT ![t] = "released"]
    /\ releases' = [releases EXCEPT ![t] = @ + 1]
    /\ UNCHANGED <<cfg, tree, finfo, fs, wloc, att, phase, tolRuns, result,
                   mpc, exitCode, lost, outBefore, spawned, run, fsAtRerun,
                   bvars, fvars, lvars, cvars, attemptRuns, arg, ret, progress>>

\* the attempt is over: the task goes on to the lease of its next attempt,
\* or ends
AttemptOver(t, more) ==
    /\ pc[t] = "released"
    /\ more => att[t] < Len(PlanOf(t))
    /\ pc' = [pc EXCEPT ![t] = IF more THEN "acquire" ELSE "done"]
    /\ att' = [att EXCEPT ![t] = IF more THEN @ + 1 ELSE @]
    /\ releases' = [releases EXCEPT ![t] = 0]
    /\ UNCHANGED <<cfg, tree, finfo, fs, wloc, lease, in_flight, phase, tolRuns,
                   result, mpc, exitCode, lost, outBefore, spawned, run, fsAtRerun,
                   bvars, fvars, lvars, cvars, attemptRuns, arg, ret, progress>>

LeaseConfigs ==
    {[skip_existing |-> FALSE, retry_decode_errors_with_ignore |-> FALSE,
      max_ignore_raw |-> [int |-> TRUE, val |-> 0], audio_copy_fallback |-> FALSE,
      output_codec |-> "avc", max_total_concurrent |-> sc[1], slots |-> sc[2]] :
        sc \in {<<MaxTotal, Slots(1, 0, 0, 1)>>,
                <<MaxTotal, Slots(MaxSlots, 0, 0, 1)>>,
                <<1, Slots(MaxSlots, 0, 0, 1)>>}}

\* every task a file of its own
LeaseTrees == {[f \in Files |-> IF f <= 4 THEN f ELSE 0]}

NextLease ==
    \/ PreCheck
    \/ \E t \in Files : WorkerStart(t)
    \/ \E t \in Files : Acquire(t)
    \/ \E t \in Files : Release(t)
    \/ \E t \in Files, more \in BOOLEAN : AttemptOver(t, more)

InitLease ==
    /\ IdleBitrateVars /\ IdleFlagVars /\ IdleLegacyVars
    /\ ServiceInit(LeaseConfigs, LeaseTrees) /\ attemptRuns = <<>>
    /\ arg = <<>> /\ ret = <<>>
    /\ releases = [f \in Files |-> 0] /\ progress = <<>>
SpecLease == InitLease /\ [][NextLease]_vars

(***************************************************************************)
(* SpecDetect: the scheduler built from the encoders section of the config *)
(* and the result of the startup detection.                                *)
(***************************************************************************)
MutSlotsIgnoreDetection(encoders) ==
    [e \in Encoders |-> IF encoders[e].enabled THEN encoders[e].max_concurrent ELSE 0]

\* create_advanced_scheduler: an encoder that is not enabled, or that the
\* detection found unavailable, gets no slot
EffectiveSlots(encoders) ==
    [e \in Encoders |->
        IF encoders[e].enabled /\ encoders[e].available
        THEN encoders[e].max_concurrent ELSE 0]

EncoderSetting(en, av, n) == [enabled |-> en, available |-> av, max_concurrent |-> n]

EncoderSections ==
    {[e \in Encoders |->
        CASE e = "nvenc" -> EncoderSetting(en, av, MaxSlots)
          [] e = "qsv" -> EncoderSetting(TRUE, FALSE, 1)
          [] e = "videotoolbox" -> EncoderSetting(FALSE, TRUE, MaxSlots)
          [] OTHER -> EncoderSetting(TRUE, TRUE, MaxSlots)] :
        en \in BOOLEAN, av \in BOOLEAN}

DetectConfigs ==
    {[skip_existing |-> FALSE, retry_decode_errors_with_ignore |-> FALSE,
      max_ignore_raw |-> [int |-> TRUE, val |-> 0], audio_copy_fallback |-> FALSE,
      output_codec |-> "avc", max_total_concurrent |-> mt,
      encoders |-> es, slots |-> EffectiveSlots(es)] :
        mt \in {1, MaxTotal}, es \in EncoderSections}

InitDetect ==
    /\ IdleBitrateVars /\ IdleFlagVars /\ IdleLegacyVars
    /\ ServiceInit(DetectConfigs, LeaseTrees) /\ attemptRuns = <<>>
    /\ arg = <<>> /\ ret = <<>>
    /\ releases = [f \in Files |-> 0] /\ progress = <<>>
SpecDetect == InitDetect /\ [][NextLease]_vars

InitLegacy == IdleCallVars /\ IdleBitrateVars /\ IdleFlagVars /\ InitLegacyVars /\ IdleServiceVars
SpecLegacy == InitLegacy /\ [][NextLegacy]_vars

\* One call of the planner for the probed file.
PlanCall ==
    /\ ~bres.done
    /\ bres' = [done |-> TRUE,
                target |-> PlanBitrate(bq),
                swapped |-> PlanBitrate([bq EXCEPT !.width = bq.height,
                                                   !.height = bq.width])]
    /\ UNCHANGED <<bq, fvars, lvars, svars, pvars>>

NextBitrate == PlanCall
InitBitrate == IdleCallVars /\ InitBitrateVars /\ IdleFlagVars /\ IdleLegacyVars /\ IdleServiceVars
SpecBitrate == InitBitrate /\ [][NextBitrate]_vars

\* encode_file line 569: tolerant_cmd = add_ignore_decode_errors_flags(cmd)
Inject ==
    /\ argv1 = <<>>
    /\ argv1' = add_ignore_decode_errors_flags(argv0)
    /\ UNCHANGED <<argv0, argv2, bvars, lvars, svars, pvars>>

\* the injection applied to an already tolerant command
InjectAgain ==
    /\ argv1 # <<>> /\ argv2 = <<>>
    /\ argv2' = add_ignore_decode_errors_flags(argv1)
    /\ UNCHANGED <<argv0, argv1, bvars, lvars, svars, pvars>>

NextFlags == Inject \/ InjectAgain
InitFlags == IdleCallVars /\ IdleBitrateVars /\ InitFlagVars /\ IdleLegacyVars /\ IdleServiceVars
SpecFlags == InitFlags /\ [][NextFlags]_vars

(***************************************************************************)
(* src/src/core/video.py: get_video_metadata_batch                         *)
(***************************************************************************)
\* a JSON key that is not there, and a value int() or float() rejects
Missing == -1
Unparsable == -2

\* default_metadata
DefaultMetadata ==
    [bitrate |-> 3000000, duration |-> 0, width |-> 1920, height |-> 1080,
     codec |-> "unknown", fps |-> 30, audio_bitrate |-> Missing]

\* what one ffprobe call can give: how check_output and json.loads came
\* back, and the keys of the parsed document the function reads
ProbeOutputs ==
    [run : {"exit_nonzero", "timeout", "bad_json", "not_an_object"},
     bit_rate : {Missing}, duration : {Missing}, width : {Missing}, height : {Missing},
     codec_name : {"missing"}, r_frame_rate : {"missing"}, audio_bit_rate : {Missing}]
    \cup
    [run : {"json"},
     bit_rate : {Missing, Unparsable, 5000000},
     duration : {Missing, Unparsable, 120},
     width : {Missing, Unparsable, 1280},
     height : {Missing, 720},
     codec_name : {"missing", "h264"},
     r_frame_rate : {"missing", "25/1", "1/0", "a/b"},
     audio_bit_rate : {Missing, Unparsable, 128000}]

\* lines 296-307: the frame rate of r_frame_rate, 30.0 when it has no value
FrameRate(r_frame_rate) ==
    CASE r_frame_rate = "25/1" -> 25
      [] OTHER -> 30

\* dict.get(key, default) followed by int() or float()
GetOr(value, default) == IF value = Missing THEN default ELSE value

get_video_metadata_batch(p) ==
    IF p.run # "json"
    THEN DefaultMetadata
    ELSE IF Unparsable \in {p.bit_rate, p.duration, p.width, p.height, p.audio_bit_rate}
    THEN DefaultMetadata
    ELSE [bitrate |-> GetOr(p.bit_rate, DefaultMetadata.bitrate),
          duration |-> GetOr(p.duration, DefaultMetadata.duration),
          width |-> GetOr(p.width, DefaultMetadata.width),
          height |-> GetOr(p.height, DefaultMetadata.height),
          codec |-> IF p.codec_name = "missing" THEN DefaultMetadata.codec
                    ELSE p.codec_name,
          fps |-> FrameRate(IF p.r_frame_rate = "missing" THEN "30/1" ELSE p.r_frame_rate),
          audio_bitrate |-> p.audio_bit_rate]

ProbeCall ==
    /\ ret = <<>>
    /\ ret' = <<get_video_metadata_batch(arg)>>
    /\ UNCHANGED <<arg, releases, progress, bvars, fvars, lvars, svars>>

NextProbe == ProbeCall
InitProbe == IdleBitrateVars /\ IdleFlagVars /\ IdleLegacyVars /\ IdleServiceVars /\ arg \in ProbeOutputs /\ ret = <<>> /\ releases = <<>> /\ progress = <<>>
SpecProbe == InitProbe /\ [][NextProbe]_vars

(***************************************************************************)
(* SpecOverrides: apply_cli_overrides of src/src/config/loader.py, called  *)
(* with the config loaded from the config file and the parsed command      *)
(* line.  Four options that both the file and the command line can set:    *)
(* the codec, the frame-rate cap, the forced bitrate and dry_run.          *)
(***************************************************************************)
DEFAULT_OUTPUT_CODEC == "hevc"
MAX_FPS == 30

\* what the config file holds for the four options
FileConfigs ==
    [codec : {"hevc", "avc", "av1"}, max_fps : {24, MAX_FPS, 60},
     forced : {0, 4000000}, dry_run : BOOLEAN]

\* what the user typed: "" and Missing stand for an option left out, dry_run
\* is a flag
CommandLines ==
    [codec : {"", "hevc", "avc", "av1"}, max_fps : {Missing, 24, MAX_FPS, 60},
     force_bitrate : {Missing, 0, 4000000}, dry_run : BOOLEAN]

\* the parser: an option left out takes its argparse default
parse_args(cl) ==
    [codec |-> IF cl.codec = "" THEN DEFAULT_OUTPUT_CODEC ELSE cl.codec,
     max_fps |-> IF cl.max_fps = Missing THEN MAX_FPS ELSE cl.max_fps,
     force_bitrate |-> IF cl.force_bitrate = Missing THEN 0 ELSE cl.force_bitrate,
     dry_run |-> cl.dry_run]

\* apply_cli_overrides: a value of args replaces the config's when it
\* differs from the default (when positive, for the forced bitrate);
\* dry_run is always taken from args
apply_cli_overrides(config, args) ==
    [codec |-> IF args.codec # DEFAULT_OUTPUT_CODEC THEN args.codec ELSE config.codec,
     max_fps |-> IF args.max_fps # MAX_FPS THEN args.max_fps ELSE config.max_fps,
     forced |-> IF args.force_bitrate > 0 THEN args.force_bitrate ELSE config.forced,
     dry_run |-> args.dry_run]

OverridesCall ==
    /\ ret = <<>>
    /\ ret' = <<apply_cli_overrides(arg.file, parse_args(arg.cl))>>
    /\ UNCHANGED <<arg, releases, progress, bvars, fvars, lvars, svars>>

NextOverrides == OverridesCall
InitOverrides ==
    /\ IdleBitrateVars /\ IdleFlagVars /\ IdleLegacyVars /\ IdleServiceVars
    /\ arg \in [file : FileConfigs, cl : CommandLines]
    /\ ret = <<>> /\ releases = <<>> /\ progress = <<>>
SpecOverrides == InitOverrides /\ [][NextOverrides]_vars

(***************************************************************************)
(* SpecValidate: validate_config of src/src/config/loader.py.  A value of  *)
(* the config is a record of its Python type and its content; a key the    *)
(* config does not hold reads as None.  An error is written as the dotted  *)
(* name of the key and the kind of the complaint.                          *)
(***************************************************************************)
PyNone == [type |-> "none", n |-> 0, s |-> ""]
PyInt(k) == [type |-> "int", n |-> k, s |-> ""]
PyBool(b) == [type |-> "bool", n |-> IF b THEN 1 ELSE 0, s |-> ""]
PyStr(x) == [type |-> "str", n |-> 0, s |-> x]

\* isinstance(v, int): a bool is an int
IsInt(v) == v.type \in {"int", "bool"}
Truthy(v) ==
    CASE v.type = "none" -> FALSE
      [] v.type = "str" -> v.s # ""
      [] OTHER -> v.n # 0

PathKeys == <<"input", "output", "log">>

RECURSIVE PathErrors(_, _)
PathErrors(paths, i) ==
    IF i > Len(PathKeys) THEN <<>>
    ELSE LET path == paths[PathKeys[i]]
         IN  (IF ~Truthy(path) \/ path.type # "str"
              THEN <<"paths." \o PathKeys[i] \o ":empty">>
              ELSE IF path.s = " "
              THEN <<"paths." \o PathKeys[i] \o ":blank">>
              ELSE <<>>)
             \o PathErrors(paths, i + 1)

EncoderNames == <<"nvenc", "qsv", "videotoolbox", "cpu">>

RECURSIVE EncoderErrors(_, _)
EncoderErrors(encoders, i) ==
    IF i > Len(EncoderNames) THEN <<>>
    ELSE LET max_concurrent == encoders[EncoderNames[i]]
         IN  (IF max_concurrent.type = "none" THEN <<>>
              ELSE IF ~IsInt(max_concurrent)
              THEN <<"encoders." \o EncoderNames[i] \o ".max_concurrent:int">>
              ELSE IF max_concurrent.n < 1 \/ max_concurrent.n > 100
              THEN <<"encoders." \o EncoderNames[i] \o ".max_concurrent:range">>
              ELSE <<>>)
             \o EncoderErrors(encoders, i + 1)

\* an optional integer with a range
IntErrors(v, key, lo, hi) ==
    IF v.type = "none" THEN <<>>
    ELSE IF ~IsInt(v) THEN <<key \o ":int">>
    ELSE IF v.n < lo \/ v.n > hi THEN <<key \o ":range">>
    ELSE <<>>

\* validate_config: the checks in their order; the error_recovery section
\* is not looked at
validate_config(config) ==
    LET errors ==
            PathErrors(config.paths, 1)
            \o EncoderErrors(config.encoders, 1)
            \o IntErrors(config.max_total_concurrent, "scheduler.max_total_concurrent", 1, 100)
            \o (IF Truthy(config.codec)
                    /\ ~(config.codec.type = "str" /\ config.codec.s \in {"hevc", "avc", "av1"})
                THEN <<"encoding.codec:choice">> ELSE <<>>)
            \o (IF config.forced.type = "none" THEN <<>>
                ELSE IF ~IsInt(config.forced) THEN <<"encoding.bitrate.forced:int">>
                ELSE IF config.forced.n < 0 THEN <<"encoding.bitrate.forced:negative">>
                ELSE <<>>)
            \o IntErrors(config.max_fps, "fps.max", 1, 240)
            \o (IF config.min_size_mb.type = "none" THEN <<>>
                ELSE IF config.min_size_mb.type \notin {"int", "bool", "float"}
                THEN <<"files.min_size_mb:number">>
                ELSE IF config.min_size_mb.n < 0 THEN <<"files.min_size_mb:negative">>
                ELSE <<>>)
    IN  [is_valid |-> Len(errors) = 0, errors |-> errors]

GoodPaths == [input |-> PyStr("in"), output |-> PyStr("out"), log |-> PyStr("logs")]
NoEncoders == [e \in {"nvenc", "qsv", "videotoolbox", "cpu"} |-> PyNone]

\* the configs handed to validate_config: the sections of the config file
\* with good and bad values
ValidateConfigs ==
    [paths : {GoodPaths, [GoodPaths EXCEPT !["input"] = PyStr("")],
              [GoodPaths EXCEPT !["log"] = PyStr(" ")]},
     encoders : {NoEncoders, [NoEncoders EXCEPT !["nvenc"] = PyInt(0)],
                 [NoEncoders EXCEPT !["cpu"] = PyStr("2")]},
     max_total_concurrent : {PyNone, PyInt(101)},
     codec : {PyStr("hevc"), PyStr("vp9")},
     forced : {PyInt(0), PyInt(-1)},
     max_fps : {PyInt(30), PyInt(0)},
     min_size_mb : {PyInt(1), PyStr("1")},
     retry_decode_errors_with_ignore : {PyNone, PyBool(TRUE), PyBool(FALSE), PyStr("yes"), PyInt(1)},
     max_ignore_retries_per_method : {PyNone, PyInt(-1), PyInt(0), PyInt(1), PyStr("1")}]

ValidateCall ==
    /\ ret = <<>>
    /\ ret' = <<validate_config(arg)>>
    /\ UNCHANGED <<arg, releases, progress, bvars, fvars, lvars, svars>>

NextValidate == ValidateCall
InitValidate ==
    /\ IdleBitrateVars /\ IdleFlagVars /\ IdleLegacyVars /\ IdleServiceVars
    /\ arg \in ValidateConfigs
    /\ ret = <<>> /\ releases = <<>> /\ progress = <<>>
SpecValidate == InitValidate /\ [][NextValidate]_vars

(***************************************************************************)
(* SpecTimeout: the timeouts encode_file hands to execute_ffmpeg in one    *)
(* attempt (src/src/service.py 524-581).  arg is the probed duration in    *)
(* milliseconds, ret the runs of the attempt so far, each with its kind    *)
(* and its timeout in seconds.                                             *)
(***************************************************************************)
Durations ==
    {-1000, 0, 1, 100, 29900, 29999, 30000, 30001, 30099, 30100, 30199, 45000,
     100000, 360000, 719900, 719999, 720000, 720100, 1000000, 36000000}

MutTimeoutUncapped(duration) == Max(300, (duration * 10) \div 1000)

\* lines 526-527; int() of the positive product drops the fraction
ffmpeg_timeout(duration) ==
    LET timeout_duration == IF duration > 0 THEN duration ELSE 30000
    IN  Max(300, Min((timeout_duration * 10) \div 1000, 7200))

TolRunsIn(r) == Cardinality({i \in 1..Len(r) : r[i].kind = "tol"})

\* line 527-528: the timeout is computed and the first run made with it
TimedFirstRun ==
    /\ ret = <<>>
    /\ ret' = <<[kind |-> "first", timeout |-> ffmpeg_timeout(arg)]>>
    /\ UNCHANGED <<arg, releases, progress, bvars, fvars, lvars, svars>>

\* lines 553-555: the audio re-run, with the variable ffmpeg_timeout
TimedAudioRun ==
    /\ Len(ret) = 1
    /\ ret' = Append(ret, [kind |-> "audio", timeout |-> ret[1].timeout])
    /\ UNCHANGED <<arg, releases, progress, bvars, fvars, lvars, svars>>

\* lines 579-581: a tolerant re-run, with the variable ffmpeg_timeout
TimedTolerantRun ==
    /\ Len(ret) >= 1
    /\ TolRunsIn(ret) < MaxIgnoreRetries
    /\ ret' = Append(ret, [kind |-> "tol", timeout |-> ret[1].timeout])
    /\ UNCHANGED <<arg, releases, progress, bvars, fvars, lvars, svars>>

NextTimeout == TimedFirstRun \/ TimedAudioRun \/ TimedTolerantRun
InitTimeout ==
    /\ IdleBitrateVars /\ IdleFlagVars /\ IdleLegacyVars /\ IdleServiceVars
    /\ arg \in Durations
    /\ ret = <<>> /\ releases = <<>> /\ progress = <<>>
SpecTimeout == InitTimeout /\ [][NextTimeout]_vars

(***************************************************************************)
(* SpecProgress: process_file of src/src/service.py (688-716) run by the   *)
(* threads of the pool.  completed += 1 is a read and a write of the       *)
(* shared counter; both, and the progress line, are inside "with lock".    *)
(***************************************************************************)
NumWorkers == 3
Workers == 1..NumWorkers

MutLockAlwaysFree(holder) == TRUE

\* threading.Lock: free when no thread holds it
LockFree(holder) == holder = 0

\* scheduler.schedule_task returns the result of the task
ScheduleReturns(w) ==
    /\ progress.wpc[w] = "scheduled"
    /\ progress' = [progress EXCEPT !.wpc[w] = "lock"]
    /\ UNCHANGED <<arg, ret, releases, bvars, fvars, lvars, svars>>

\* scheduler.schedule_task raises: the exception leaves process_file
ScheduleRaises(w) ==
    /\ progress.wpc[w] = "scheduled"
    /\ progress' = [progress EXCEPT !.wpc[w] = "raised"]
    /\ UNCHANGED <<arg, ret, releases, bvars, fvars, lvars, svars>>

\* with lock:
LockAcquire(w) ==
    /\ progress.wpc[w] = "lock"
    /\ LockFree(progress.holder)
    /\ progress' = [progress EXCEPT !.holder = w, !.wpc[w] = "read"]
    /\ UNCHANGED <<arg, ret, releases, bvars, fvars, lvars, svars>>

\* completed += 1, the load
CounterRead(w) ==
    /\ progress.wpc[w] = "read"
    /\ progress' = [progress EXCEPT !.tmp[w] = progress.completed, !.wpc[w] = "write"]
    /\ UNCHANGED <<arg, ret, releases, bvars, fvars, lvars, svars>>

\* completed += 1, the store
CounterWrite(w) ==
    /\ progress.wpc[w] = "write"
    /\ progress' = [progress EXCEPT !.completed = progress.tmp[w] + 1, !.wpc[w] = "log"]
    /\ UNCHANGED <<arg, ret, releases, bvars, fvars, lvars, svars>>

\* the progress line is logged with the counter as it stands, and the lock
\* is left
LogProgress(w) ==
    /\ progress.wpc[w] = "log"
    /\ progress' = [progress EXCEPT !.reported = Append(@, progress.completed),
                                    !.holder = IF @ = w THEN 0 ELSE @,
                                    !.wpc[w] = "done"]
    /\ UNCHANGED <<arg, ret, releases, bvars, fvars, lvars, svars>>

NextProgress ==
    \/ \E w \in Workers : ScheduleReturns(w)
    \/ \E w \in Workers : ScheduleRaises(w)
    \/ \E w \in Workers : LockAcquire(w)
    \/ \E w \in Workers : CounterRead(w)
    \/ \E w \in Workers : CounterWrite(w)
    \/ \E w \in Workers : LogProgress(w)

\* run_batch lines 193-198 and 718-725: the counter at 0, the lock free,
\* one submitted call of process_file per file to process
InitProgress ==
    /\ IdleBitrateVars /\ IdleFlagVars /\ IdleLegacyVars /\ IdleServiceVars
    /\ arg = <<>> /\ ret = <<>> /\ releases = <<>>
    /\ progress = [completed |-> 0, holder |-> 0,
                   wpc |-> [w \in Workers |-> "scheduled"],
                   tmp |-> [w \in Workers |-> 0],
                   reported |-> <<>>]
SpecProgress == InitProgress /\ [][NextProgress]_vars

(***************************************************************************)
(* SpecArgv: the encoder command lines of the attempts of one plan, as     *)
(* build_encode_command of src/src/service.py (236-296) builds them.       *)
(***************************************************************************)
\* build_hw_encode_command / build_sw_encode_command: the argv without the
\* parts every command of a task shares (paths, bitrate, audio, subtitles)
EncodeArgv(tag, hwaccel, limit_fps) ==
    <<"ffmpeg", "-y">>
    \o (IF hwaccel # "" THEN <<"-hwaccel", hwaccel>> ELSE <<>>)
    \o <<"-i", "input">>
    \o (IF limit_fps THEN <<"-vf", "fps=max_fps">> ELSE <<>>)
    \o <<"-c:v", tag, "output">>

\* build_encode_command; called for the entries of a plan, whose encoders
\* all have a tag for the output codec
build_encode_command(c, encoder_type, decode_mode) ==
    IF encoder_type = "cpu"
    THEN EncodeArgv(SwEncoderTag(c.output_codec), "",
                    decode_mode = "SW_DECODE_LIMITED" /\ c.limit_fps_software_encode)
    ELSE EncodeArgv(HwEncoderTag(encoder_type, c.output_codec),
                    IF decode_mode = "HW_DECODE" THEN encoder_type ELSE "",
                    decode_mode = "SW_DECODE_LIMITED" /\ c.limit_fps_software_decode)

PlanArgvs(c, source_codec) ==
    LET plan == AttemptPlan(c, source_codec)
    IN  [i \in 1..Len(plan) |-> build_encode_command(c, plan[i].enc, plan[i].mode)]

ArgvInputs ==
    [c : [output_codec : {"hevc", "avc"},
          slots : {Slots(1, 0, 0, 1), Slots(0, 1, 1, 0), Slots(1, 1, 0, 1), Slots(0, 0, 0, 1)},
          limit_fps_software_decode : BOOLEAN,
          limit_fps_software_encode : BOOLEAN],
     source_codec : {"h264", "wmv3"}]

ArgvCall ==
    /\ ret = <<>>
    /\ ret' = <<PlanArgvs(arg.c, arg.source_codec)>>
    /\ UNCHANGED <<arg, releases, progress, bvars, fvars, lvars, svars>>

NextArgv == ArgvCall
InitArgv ==
    /\ IdleBitrateVars /\ IdleFlagVars /\ IdleLegacyVars /\ IdleServiceVars
    /\ arg \in ArgvInputs
    /\ ret = <<>> /\ releases = <<>> /\ progress = <<>>
SpecArgv == InitArgv /\ [][NextArgv]_vars

(***************************************************************************)
(* SpecAudio: the audio arguments of the first command of an attempt       *)
(* (src/src/service.py 299-342 and 435-476).  arg holds the audio section  *)
(* of the config and the bitrate ffprobe reports for the first audio       *)
(* stream; "none" stands for a key the config does not hold.               *)
(***************************************************************************)
\* str(value).strip().lower() on the mode values
StripLower(x) ==
    CASE x = "Copy" -> "copy"
      [] x = "AUTO " -> "auto"
      [] OTHER -> x

AudioModes == {"none", "", "off", "copy", "Copy", "transcode", "auto", "AUTO ", "loud"}

\* normalize_audio_mode
normalize_audio_mode(value) ==
    LET mode == StripLower(IF value \in {"none", ""} THEN "transcode" ELSE value)
    IN  IF mode \in {"off", "copy", "transcode", "auto"} THEN mode ELSE "transcode"

\* resolve_audio_mode: the mode key, else the keys of older configs
resolve_audio_mode(audio_cfg) ==
    IF audio_cfg.mode \notin {"none", "", "null"}
    THEN normalize_audio_mode(audio_cfg.mode)
    ELSE IF audio_cfg.enabled = "false" THEN "off"
    ELSE IF audio_cfg.copy_policy \notin {"none", "", "off"} THEN "auto"
    ELSE "transcode"

\* encoding.audio_bitrate, at its default
AUDIO_BITRATE == "128k"

\* build_audio_args
build_audio_args(audio_cfg, mode) ==
    LET m == normalize_audio_mode(mode)
        codec == IF audio_cfg.codec \in {"none", ""} THEN "aac" ELSE audio_cfg.codec
        bitrate == IF audio_cfg.bitrate = "none" THEN AUDIO_BITRATE ELSE audio_cfg.bitrate
    IN  IF m = "off" THEN <<"-an">>
        ELSE IF m = "copy" THEN <<"-c:a", "copy">>
        ELSE <<"-c:a", codec>>
             \o (IF bitrate \notin {"", "null"} THEN <<"-b:a", bitrate>> ELSE <<>>)

\* parse_bitrate_to_bps: a number with an optional k or M, None otherwise
parse_bitrate_to_bps(text) ==
    CASE text = "128k" -> 128000
      [] text = "64000" -> 64000
      [] OTHER -> Missing

MutCopyBelowOnly(source_audio_bps, target_bps) ==
    source_audio_bps # Missing /\ target_bps # Missing /\ source_audio_bps < target_bps

\* lines 461-465: the source bitrate is known and does not exceed the target
CopyInsteadOfTranscode(source_audio_bps, target_bps) ==
    source_audio_bps # Missing /\ target_bps # Missing /\ source_audio_bps <= target_bps

\* encode_file lines 435-476
FirstAudioArgs(a) ==
    LET audio_mode == resolve_audio_mode(a.audio)
        copy == build_audio_args(a.audio, "copy")
        transcode == build_audio_args(a.audio, "transcode")
        target_bps == IF Len(transcode) = 4 THEN parse_bitrate_to_bps(transcode[4])
                      ELSE Missing
        source_audio_bps == IF target_bps # Missing THEN a.source_bps ELSE Missing
    IN  IF audio_mode = "auto"
        THEN [audio_args |-> copy, audio_copy_fallback |-> TRUE, retry_audio_args |-> transcode]
        ELSE IF audio_mode = "transcode"
        THEN IF CopyInsteadOfTranscode(source_audio_bps, target_bps)
             THEN [audio_args |-> copy, audio_copy_fallback |-> TRUE,
                   retry_audio_args |-> transcode]
             ELSE [audio_args |-> transcode, audio_copy_fallback |-> FALSE,
                   retry_audio_args |-> <<>>]
        ELSE [audio_args |-> build_audio_args(a.audio, audio_mode),
              audio_copy_fallback |-> FALSE, retry_audio_args |-> <<>>]

AudioInputs ==
    [audio : [mode : AudioModes, enabled : {"none", "false"},
              copy_policy : {"none", "always"}, codec : {"none", "libopus"},
              bitrate : {"none", "64000", "bad", ""}],
     source_bps : {Missing, 0, 63999, 64000, 64001, 128000, 128001}]

AudioCall ==
    /\ ret = <<>>
    /\ ret' = <<FirstAudioArgs(arg)>>
    /\ UNCHANGED <<arg, releases, progress, bvars, fvars, lvars, svars>>

NextAudio == AudioCall
InitAudio ==
    /\ IdleBitrateVars /\ IdleFlagVars /\ IdleLegacyVars /\ IdleServiceVars
    /\ arg \in AudioInputs
    /\ ret = <<>> /\ releases = <<>> /\ progress = <<>>
SpecAudio == InitAudio /\ [][NextAudio]_vars

(***************************************************************************)
(* C1: in every reachable state of the scheduler, for every encoder E the  *)
(* number of leases held on E (in_flight[E]) is at most E's max_concurrent *)
(* and the sum of in_flight over all encoders is at most                   *)
(* scheduler.max_total_concurrent.                                         *)
(***************************************************************************)
InFlightTotal ==
    in_flight["nvenc"] + in_flight["qsv"] + in_flight["videotoolbox"] + in_flight["cpu"]

C1_CapacityRespect ==
    /\ \A e \in Encoders : in_flight[e] >= 0 /\ in_flight[e] <= cfg.slots[e]
    /\ InFlightTotal <= cfg.max_total_concurrent

\* one worker holds the only nvenc slot while a second worker, with the pool
\* and the global cap leaving room, waits for a lease on nvenc
C1_Witness ==
    \E t, u \in Files :
        /\ t # u
        /\ lease[t] = "nvenc" /\ pc[t] = "running"
        /\ pc[u] = "acquire" /\ PlanOf(u)[att[u]].enc = "nvenc"
        /\ in_flight["nvenc"] = cfg.slots["nvenc"]
        /\ InFlightTotal < cfg.max_total_concurrent

(***************************************************************************)
(* C2: every running encoder subprocess belongs to a task that holds a     *)
(* lease on the encoder of its current attempt, every lease accounts for   *)
(* exactly one unit of in_flight, and no encoder run of an attempt exists  *)
(* before the lease of the attempt was granted.                            *)
(***************************************************************************)
C2_LeaseBeforeRun ==
    /\ \A t \in Files :
          pc[t] = "running" =>
              /\ lease[t] # "none"
              /\ lease[t] = PlanOf(t)[att[t]].enc
    /\ \A e \in Encoders : in_flight[e] = Cardinality({t \in Files : lease[t] = e})

\* two encoder subprocesses run at once, one under a lease on nvenc and one,
\* for a task whose nvenc attempts have failed, under a lease on cpu
C2_Witness ==
    \E t, u \in Files :
        /\ pc[t] = "running" /\ lease[t] = "nvenc"
        /\ pc[u] = "running" /\ lease[u] = "cpu" /\ att[u] > 1
        /\ in_flight["nvenc"] = 1 /\ in_flight["cpu"] = 1

(***************************************************************************)
(* C3: when a task ends in Failure, no file exists at its output path      *)
(* unless a file already existed there before the task started.            *)
(***************************************************************************)
C3_OutputAtomicity ==
    [][\A t \in tree :
          (pc[t] # "done" /\ pc'[t] = "done" /\ result'[t] = "FAILED")
              => (Exists(fs', OutputOf(t)) => outBefore[t])]_vars

(***************************************************************************)
(* C4: the file at a task's final output path changes only by the rename   *)
(* of the temp file that follows a successful encoder run of the task, and *)
(* a partially written file is never visible at the final path, in every   *)
(* interleaving of concurrent tasks.                                       *)
(***************************************************************************)
C4_TempThenRename ==
    [][\A t \in tree :
          LET o == OutputOf(t)
          IN  /\ fs'[o] # fs[o] =>
                    \E u \in tree : /\ OutputOf(u) = o
                                    /\ pc[u] = "replace"
                                    /\ pc'[u] = "done" /\ result'[u] = "SUCCESS"
              /\ fs'[o] # "partial"]_vars

(***************************************************************************)
(* C5: at every point of a task's execution the (encoder, decode mode)     *)
(* pairs attempted so far are a prefix of the plan computed for the task:  *)
(* one at a time, in plan order, none skipped, reordered or repeated.      *)
(***************************************************************************)
Pairs(cmds) == [i \in 1..Len(cmds) |-> <<cmds[i].enc, cmds[i].mode>>]

C5_PlanMonotonic ==
    \A f \in LegacyFiles :
        /\ Len(lattempted[f]) <= Len(lplan[f])
        /\ Pairs(lattempted[f]) = SubSeq(Pairs(lplan[f]), 1, Len(lattempted[f]))
        /\ lattempted[f] = SubSeq(lplan[f], 1, Len(lattempted[f]))
        /\ lpc[f] = "encoding" => Len(lattempted[f]) = lidx[f]

\* a task whose first two commands failed is running its third
C5_Witness ==
    \E f \in LegacyFiles :
        /\ lpc[f] = "encoding"
        /\ Len(lattempted[f]) = 3
        /\ Len(lplan[f]) > 3

(***************************************************************************)
(* C6: in each attempt the number of re-runs made with the tolerance flags *)
(* is at most max_ignore_retries_per_method (taken as an integer, negative *)
(* values as 0, unparseable values as 1), and is 0 when                    *)
(* retry_decode_errors_with_ignore is false or the limit is 0.             *)
(***************************************************************************)
ClaimedRetryLimit ==
    IF ~cfg.max_ignore_raw.int THEN 1
    ELSE IF cfg.max_ignore_raw.val < 0 THEN 0 ELSE cfg.max_ignore_raw.val

C6_ToleranceBound ==
    \A t \in Files :
        /\ tolRuns[t] <= ClaimedRetryLimit
        /\ (~cfg.retry_decode_errors_with_ignore \/ ClaimedRetryLimit = 0)
              => tolRuns[t] = 0

\* an attempt is in its last allowed tolerant re-run under the largest limit
C6_Witness ==
    \E t \in Files :
        /\ pc[t] = "running" /\ phase[t] = "tol"
        /\ cfg.max_ignore_raw = [int |-> TRUE, val |-> MaxIgnoreRetries]
        /\ tolRuns[t] = MaxIgnoreRetries

(***************************************************************************)
(* C7: for every input whose resolved path lies outside the input root the *)
(* task of that input fails with a PathEscape error as its task result,    *)
(* and no subprocess is spawned for it.                                    *)
(***************************************************************************)
C7_PathEscape ==
    \A f \in tree :
        finfo[f].escapes =>
            /\ pc[f] # "running"
            /\ mpc \in {"returned", "raised"} => result[f] = "FAILED"

(***************************************************************************)
(* C8: with forcing on (forced > 0) the planner returns the forced value;  *)
(* otherwise it returns max(min_bitrate, min(int(source * ratio), cap))    *)
(* with cap picked by the short side (<=720: 1.5M, <=1080: 3M, <=1440: 5M, *)
(* else 9M), so the result lies in [min_bitrate, cap] and is the same with *)
(* width and height exchanged.                                             *)
(***************************************************************************)
ClaimedCap(q) ==
    LET s == IF q.width <= q.height THEN q.width ELSE q.height
    IN  CASE s <= 720 -> 1500000
          [] s > 720 /\ s <= 1080 -> 3000000
          [] s > 1080 /\ s <= 1440 -> 5000000
          [] OTHER -> 9000000

ClaimedHalf(q) == IF q.bitrate >= 0 THEN q.bitrate \div 2 ELSE -((-q.bitrate) \div 2)

C8_BitrateClamp ==
    bres.done =>
        /\ bq.forced > 0 => bres.target = bq.forced
        /\ bq.forced <= 0 =>
              /\ bres.target = Max(500000, Min(ClaimedHalf(bq), ClaimedCap(bq)))
              /\ bres.target >= 500000
              /\ bres.target <= ClaimedCap(bq)
              /\ bres.target = bres.swapped

\* an unforced call on a portrait source (width < height) whose half bitrate
\* exceeds the cap of a 720-pixel short side
C8_Witness ==
    /\ bres.done /\ bq.forced <= 0
    /\ bq.width = 720 /\ bq.height = 1081
    /\ bq.bitrate = 6000000 /\ bres.target = 1500000

(***************************************************************************)
(* C9: injecting the tolerance flags is idempotent: injecting into an      *)
(* already injected argv returns it unchanged, and an argv that carries    *)
(* both -fflags +discardcorrupt and -err_detect ignore_err is returned     *)
(* unchanged.                                                              *)
(***************************************************************************)
C9_FlagIdempotence ==
    /\ argv2 # <<>> => argv2 = argv1
    /\ (/\ argv1 # <<>>
        /\ HasPair(argv0, "-fflags", "+discardcorrupt")
        /\ HasPair(argv0, "-err_detect", "ignore_err")) => argv1 = argv0

\* a command without the flags has been injected twice and grew only once
C9_Witness ==
    /\ argv2 # <<>>
    /\ ~HasPair(argv0, "-fflags", "+discardcorrupt")
    /\ Len(argv1) = Len(argv0) + 4
    /\ Len(argv2) = Len(argv1)

(***************************************************************************)
(* C10: the batch exit code is 0 exactly when every task succeeded or was  *)
(* skipped, and is 1 whenever at least one task failed, a task whose       *)
(* worker raised an exception included.                                    *)
(***************************************************************************)
TaskWentWell(f) ==
    f \notin lost /\ result[f] \in {"SUCCESS", "SKIP_SIZE", "SKIP_EXISTS"}

C10_ExitCode ==
    mpc = "returned" =>
        /\ exitCode = 0 <=> \A f \in tree : TaskWentWell(f)
        /\ exitCode = 1 <=> \E f \in tree : ~TaskWentWell(f)

(***************************************************************************)
(* C11: every file handed to the worker pool yields exactly one result in  *)
(* the result list, whatever error occurs while it is processed, so that   *)
(* discovered files = pre-skipped + succeeded + skipped for size + skipped *)
(* for existing + failed.                                                  *)
(***************************************************************************)
ResultList == {f \in tree : Finished(f)} \ lost

C11_OneResultEach ==
    mpc = "returned" =>
        /\ \A f \in tree : pc[f] = "done" => f \in ResultList
        /\ Cardinality(tree) = Cardinality(ResultList)

(***************************************************************************)
(* C12: running the batch again over the same input tree with              *)
(* skip_existing=true, after a run in which every file succeeded or was    *)
(* skipped, is a no-op: no encoder subprocess is run and no file under the *)
(* output root is created, modified or deleted.                            *)
(***************************************************************************)
C12_RerunNoOp ==
    run = 2 =>
        /\ fs = fsAtRerun
        /\ \A t \in tree : "encoder" \notin spawned[t]

(***************************************************************************)
(* C13: with skip_existing=true a file that exists at a task's output path *)
(* is never replaced: a task that finds its output when it starts ends as  *)
(* SkipExists without encoding, and a successful encode that finds it at   *)
(* the commit deletes its temp file and ends as SkipExists, in every       *)
(* interleaving of concurrent tasks.                                       *)
(***************************************************************************)
C13_NeverReplaced ==
    [][cfg.skip_existing =>
          \A t \in tree :
              LET o == OutputOf(t)
              IN  /\ Exists(fs, o) => fs'[o] = fs[o]
                  /\ (pc[t] = "commit" /\ Exists(fs, o) /\ Exists(fs, TempOf(t))
                        /\ pc'[t] # "commit")
                        => result'[t] = "SKIP_EXISTS" /\ ~Exists(fs', TempOf(t))
                  /\ (pc[t] = "leased" /\ Exists(fs, o) /\ pc'[t] # "leased"
                        /\ ~BelowMinSize(finfo[t].size))
                        => result'[t] = "SKIP_EXISTS" /\ pc'[t] = "done"]_vars

(***************************************************************************)
(* C16: a task whose input is smaller than min_size_mb * 1024 * 1024 bytes *)
(* ends as SkipSize without a probe or an encoder subprocess and without   *)
(* creating a file; an input of exactly that size is not skipped.          *)
(***************************************************************************)
C16_SkipSize ==
    \A t \in tree :
        /\ finfo[t].size < 104857600 =>
              /\ spawned[t] = {}
              /\ pc[t] # "running"
              /\ pc[t] = "done" => result[t] = "SKIP_SIZE"
              /\ ~Exists(fs, OutputOf(t)) /\ ~Exists(fs, TempOf(t))
        /\ finfo[t].size = 104857600 =>
              (pc[t] = "done" => result[t] # "SKIP_SIZE")

\* a file one byte under the threshold was skipped for its size and left no
\* trace, while a file of exactly the threshold size was encoded
C16_Witness ==
    \E t, u \in tree :
        /\ finfo[t].size = 104857599 /\ pc[t] = "done" /\ result[t] = "SKIP_SIZE"
        /\ finfo[u].size = 104857600 /\ pc[u] = "done" /\ result[u] = "SUCCESS"
        /\ "encoder" \in spawned[u]

(***************************************************************************)
(* C17: any two distinct input files found by one walk of the input tree   *)
(* have distinct output paths and distinct temp paths.                     *)
(***************************************************************************)
C17_DistinctPaths ==
    \A t, u \in tree :
        t # u => /\ OutputOf(t) # OutputOf(u)
                 /\ TempOf(t) # TempOf(u)

(***************************************************************************)
(* C18: in a built plan every hardware-encoder attempt comes before every  *)
(* cpu attempt, and one encoder's attempts are in the order HW_DECODE,     *)
(* SW_DECODE_LIMITED, SW_DECODE; cpu has SW_DECODE_LIMITED before          *)
(* SW_DECODE and never HW_DECODE.                                          *)
(***************************************************************************)
EncRank(enc) == IF enc = "cpu" THEN 1 ELSE 0

ModeRank(mode) ==
    CASE mode = "HW_DECODE" -> 0
      [] mode = "SW_DECODE_LIMITED" -> 1
      [] OTHER -> 2

C19_PerEncoderWhitelist ==
    \A f \in DOMAIN lplan :
        lattempted[f] # <<>> =>
            LET p == lplan[f]
                E == lcfg.hw_accel
            IN  /\ (\E i \in 1..Len(p) : p[i].enc = E /\ p[i].mode = "HW_DECODE")
                       = (/\ E # "none"
                          /\ lfile[f].codec \in HwDecodeWhitelist(E)
                          /\ HwEncoderTag(E, lcfg.output_codec) # "")
                /\ \A i \in 1..Len(p) : p[i].hwaccel = (p[i].mode = "HW_DECODE")

SpawnStep(t) ==
    /\ pc'[t] = "running"
    /\ \/ pc[t] # "running"
       \/ phase'[t] # phase[t]
       \/ tolRuns'[t] # tolRuns[t]

RenameStep(t) == pc[t] = "replace" /\ result'[t] = "SUCCESS"

CancelledTask(t) == t \in atSignal.killed \/ result[t] = "CANCELLED"

C14_NoAttemptAfterShutdown ==
    [][shutdown =>
          \A t \in tree :
              /\ ~SpawnStep(t)
              /\ CancelledTask(t) => ~RenameStep(t)
              /\ (CancelledTask(t) /\ pc[t] # "done" /\ pc'[t] = "done")
                    => ~Exists(fs', TempOf(t))]_vars

(***************************************************************************)
(* C15: after the signal, eventually no child is alive, no acquire is      *)
(* waiting, every worker has stopped, the output of every task that had a  *)
(* live child when the signal arrived is as it was then, and the program   *)
(* has exited with code 130.                                               *)
(***************************************************************************)
C15_ShutdownDrains ==
    shutdown ~>
        (/\ \A t \in tree : pc[t] # "running"
         /\ killed = {}
         /\ \A t \in tree : pc[t] # "acquire"
         /\ \A t \in tree : Finished(t)
         /\ \A t \in atSignal.killed : fs[OutputOf(t)] = atSignal.fs[OutputOf(t)]
         /\ mpc = "returned" /\ ProcessExit = 130)

(***************************************************************************)
(* C21: with retry_decode_errors_with_ignore on and a retry limit of at    *)
(* least 1, an attempt in which a run of the attempt's own command failed  *)
(* with a decode corruption error is not given up (for the next attempt    *)
(* or for good) before it was re-run with the tolerance flags.             *)
(***************************************************************************)
AttemptGivenUp(t) ==
    /\ pc[t] \in {"acquire", "leased", "done"}
    /\ attemptRuns[t] # <<>>
    /\ attemptRuns[t][Len(attemptRuns[t])].out # "ok"

C21_TolerantRerun ==
    \A t \in tree :
        (cfg.retry_decode_errors_with_ignore /\ RetryLimit >= 1 /\ AttemptGivenUp(t)) =>
            LET r == attemptRuns[t]
            IN  \A i \in 1..Len(r) :
                    (r[i].out = "corrupt" /\ r[i].kind # "tol") =>
                        \E j \in (i + 1)..Len(r) : r[j].kind = "tol"

(***************************************************************************)
(* C22: when the command of an attempt was built with audio copy and a     *)
(* transcode fallback, a failure of its first run, whatever the error, is  *)
(* followed by exactly one re-run with the transcode audio arguments; an   *)
(* attempt built without that fallback has no audio re-run.                *)
(***************************************************************************)
AudioRuns(t) ==
    Cardinality({i \in 1..Len(attemptRuns[t]) : attemptRuns[t][i].kind = "audio"})
    + (IF pc[t] = "running" /\ phase[t] = "audio" THEN 1 ELSE 0)

C22_AudioFallbackOnce ==
    \A t \in tree :
        LET r == attemptRuns[t]
        IN  /\ AudioRuns(t) <= 1
            /\ ~cfg.audio_copy_fallback => AudioRuns(t) = 0
            /\ r # <<>> => r[1].kind = "first"
            /\ (cfg.audio_copy_fallback /\ r # <<>> /\ r[1].out # "ok") =>
                  /\ AudioRuns(t) = 1
                  /\ IF Len(r) = 1 THEN pc[t] = "running" /\ phase[t] = "audio"
                     ELSE r[2].kind = "audio"
            /\ (r # <<>> /\ r[1].out = "ok") => AudioRuns(t) = 0

\* a first run with audio copy hit the timeout, the one transcode re-run
\* succeeded and the task ended as a success
C22_Witness ==
    \E t \in tree :
        /\ cfg.audio_copy_fallback
        /\ attemptRuns[t] = <<[kind |-> "first", out |-> "timeout"],
                              [kind |-> "audio", out |-> "ok"]>>
        /\ result[t] = "SUCCESS"

(***************************************************************************)
(* C29: within one attempt the audio transcode re-run comes after the      *)
(* tolerance retries: when a run failed with a decode corruption error     *)
(* and the retries are on, the tolerant runs are made before the audio     *)
(* re-run, no tolerant run follows it, and it is made at most once.        *)
(***************************************************************************)
\* the kinds of the runs of the current attempt, the running one included
RunKinds(t) ==
    [i \in 1..Len(attemptRuns[t]) |-> attemptRuns[t][i].kind]
    \o (IF pc[t] = "running" THEN <<phase[t]>> ELSE <<>>)

C29_AudioAfterTolerance ==
    \A t \in tree :
        LET r == attemptRuns[t]
            k == RunKinds(t)
        IN  /\ AudioRuns(t) <= 1
            /\ \A i \in 1..Len(k) :
                  k[i] = "audio" =>
                      /\ \A j \in (i + 1)..Len(k) : k[j] # "tol"
                      /\ (/\ cfg.retry_decode_errors_with_ignore /\ RetryLimit >= 1
                          /\ \E h \in 1..(i - 1) : r[h].out = "corrupt")
                            => \E h \in 1..(i - 1) : k[h] = "tol"

(***************************************************************************)
(* C23: when the probe fails (ffprobe exits non-zero or times out, its     *)
(* output is not JSON, a key the function reads is missing, a value does   *)
(* not parse) the function returns exactly the default metadata, never a   *)
(* mix of probed and default fields.                                       *)
(***************************************************************************)
ProbeFailed(p) ==
    \/ p.run # "json"
    \/ Unparsable \in {p.bit_rate, p.duration, p.width, p.height, p.audio_bit_rate}
    \/ Missing \in {p.bit_rate, p.duration, p.width, p.height}
    \/ p.codec_name = "missing"
    \/ p.r_frame_rate \in {"missing", "a/b"}

C23_ProbeDefaults ==
    (ret # <<>> /\ ProbeFailed(arg)) => ret[1] = DefaultMetadata

CpuEnabled == lcfg.enable_software_encoding \/ lcfg.hw_accel = "none"

PlanBuilt(f) ==
    lpc[f] # "queued" /\ lstatus[f] \notin {"SKIP_SIZE", "SKIP_EXISTS"}

C25_AvcFallbackLast ==
    \A f \in DOMAIN lplan :
        PlanBuilt(f) =>
            LET p == lplan[f]
                n == Len(p)
                x264 == Cmd("cpu", "SW_DECODE", "libx264", FALSE, FALSE)
                own == Cmd("cpu", "SW_DECODE", SwEncoderTag(lcfg.output_codec), FALSE, FALSE)
                plain == {i \in 1..n : p[i].enc = "cpu" /\ p[i].mode = "SW_DECODE"}
            IN  /\ (CpuEnabled /\ lcfg.output_codec # "avc") =>
                      /\ n >= 2 /\ p[n] = x264 /\ p[n - 1] = own
                      /\ Cardinality(plain) = 2
                /\ (CpuEnabled /\ lcfg.output_codec = "avc") =>
                      /\ n >= 1 /\ p[n] = own
                      /\ Cardinality(plain) = 1
                /\ ~CpuEnabled => \A i \in 1..n : p[i].enc # "cpu"

\* a task with output codec hevc went through its whole plan and succeeded
\* with the libx264 entry, its last
C25_Witness ==
    \E f \in DOMAIN lplan :
        /\ lcfg.output_codec = "hevc" /\ lcfg.hw_accel = "nvenc"
        /\ lstatus[f] = "SUCCESS"
        /\ Len(lattempted[f]) = Len(lplan[f])
        /\ lattempted[f][Len(lattempted[f])].tag = "libx264"

(***************************************************************************)
(* C26: releasing a lease any number of times has the effect of releasing  *)
(* it once: in_flight of every encoder equals the number of granted leases *)
(* not yet released, the global count is their total, and neither is ever  *)
(* below 0, whatever the order of the releases and the acquires.           *)
(***************************************************************************)
HeldLeases(e) == {t \in Files : lease[t] = e}

C26_ReleaseIdempotent ==
    /\ \A e \in Encoders :
          /\ in_flight[e] >= 0
          /\ in_flight[e] = Cardinality(HeldLeases(e))
    /\ in_flight["nvenc"] + in_flight["qsv"] + in_flight["videotoolbox"] + in_flight["cpu"]
          = Cardinality({t \in Files : lease[t] # "none"})

\* a lease was released more than once, and another task has since been
\* granted the slot it gave back
C26_Witness ==
    \E t, u \in Files :
        /\ t # u
        /\ releases[t] >= 2 /\ lease[t] = "none"
        /\ cfg.slots[PlanOf(t)[att[t]].enc] = 1
        /\ lease[u] = PlanOf(t)[att[t]].enc

(***************************************************************************)
(* C27: the command line wins over the config file: an option given on the *)
(* command line has the given value in the resulting config, an option not *)
(* given keeps the value of the config file.                               *)
(***************************************************************************)
C27_CliOverFile ==
    ret # <<>> =>
        LET cl == arg.cl
            file == arg.file
            out == ret[1]
        IN  /\ out.codec = IF cl.codec = "" THEN file.codec ELSE cl.codec
            /\ out.max_fps = IF cl.max_fps = Missing THEN file.max_fps ELSE cl.max_fps
            /\ out.forced = IF cl.force_bitrate = Missing THEN file.forced
                            ELSE cl.force_bitrate
            /\ out.dry_run = IF cl.dry_run THEN TRUE ELSE file.dry_run

(***************************************************************************)
(* C28: validate_config reports a retry_decode_errors_with_ignore that is  *)
(* not a boolean and a negative max_ignore_retries_per_method, each with   *)
(* its own error, and reports nothing for a config in which they are a     *)
(* boolean and a non-negative integer (the other sections being valid).    *)
(***************************************************************************)
InErrors(m) == \E i \in 1..Len(ret[1].errors) : ret[1].errors[i] = m

OtherSectionsValid(c) ==
    /\ c.paths = GoodPaths /\ c.encoders = NoEncoders
    /\ c.max_total_concurrent = PyNone /\ c.codec = PyStr("hevc")
    /\ c.forced = PyInt(0) /\ c.max_fps = PyInt(30) /\ c.min_size_mb = PyInt(1)

C28_ErrorRecoveryValidated ==
    ret # <<>> =>
        LET retry == arg.retry_decode_errors_with_ignore
            limit == arg.max_ignore_retries_per_method
        IN  /\ retry.type \notin {"bool", "none"} =>
                  /\ ~ret[1].is_valid
                  /\ InErrors("error_recovery.retry_decode_errors_with_ignore:bool")
            /\ (limit.type = "int" /\ limit.n < 0) =>
                  /\ ~ret[1].is_valid
                  /\ InErrors("error_recovery.max_ignore_retries_per_method:negative")
            /\ (retry.type = "bool" /\ limit.type = "int" /\ limit.n >= 0
                    /\ OtherSectionsValid(arg)) =>
                  /\ ret[1].is_valid
                  /\ ret[1].errors = <<>>

(***************************************************************************)
(* C30: the first run, the audio re-run and every tolerant re-run of an    *)
(* attempt get the same timeout; it is 10 times the duration in seconds,   *)
(* cut to a whole number and kept within 300 and 7200, with 30 s standing  *)
(* for a duration that is not positive; it never decreases when the        *)
(* duration grows.                                                         *)
(***************************************************************************)
C30_TimeoutSameAndClamped ==
    /\ \A i \in 1..Len(ret) :
          /\ ret[i].timeout = ret[1].timeout
          /\ ret[i].timeout >= 300 /\ ret[i].timeout <= 7200
    /\ ret # <<>> =>
          /\ \A d \in Durations : d >= arg => ffmpeg_timeout(d) >= ret[1].timeout
          /\ arg <= 30000 => ret[1].timeout = 300
          /\ arg = 30199 => ret[1].timeout = 301
          /\ arg = 45000 => ret[1].timeout = 450
          /\ arg = 719999 => ret[1].timeout = 7199
          /\ arg >= 720000 => ret[1].timeout = 7200

\* an attempt on a 45 s file that made its first run, the audio re-run and
\* a tolerant re-run, each with 450 s
C30_Witness ==
    /\ arg = 45000
    /\ Len(ret) = 3
    /\ ret[2].kind = "audio" /\ ret[3].kind = "tol"
    /\ ret[3].timeout = 450

(***************************************************************************)
(* C31: a temp file exists only while an attempt of its task is under way: *)
(* after a failed attempt, whatever made it fail, the temp file of the     *)
(* task is gone when the next attempt starts and when the task ends.       *)
(***************************************************************************)
AttemptUnderWay(t) == pc[t] \in {"running", "commit", "replace"}

C31_TempGoneAfterFailure ==
    \A t \in tree : Exists(fs, TempOf(t)) => AttemptUnderWay(t)

(***************************************************************************)
(* C32: the command builder returns no command exactly when the encoder    *)
(* has no tag for the output codec (videotoolbox with av1); such an        *)
(* attempt is skipped: no encoder subprocess runs, no file is created or   *)
(* deleted, and the task goes on to the next attempt of its plan (or,      *)
(* after the last one, fails).                                             *)
(***************************************************************************)
\* the table of encoder tags: the one empty cell
NoTag(enc, codec) == enc = "videotoolbox" /\ codec = "av1"

\* encode_file gets as far as building the command of the attempt
BuildsCommand(t) ==
    /\ pc[t] = "leased" /\ pc'[t] # "leased"
    /\ ~BelowMinSize(finfo[t].size)
    /\ ~(cfg.skip_existing /\ Exists(fs, OutputOf(t)))

C32_NoTagSkipsAttempt ==
    [][\A t \in tree :
          BuildsCommand(t) =>
              IF NoTag(PlanOf(t)[att[t]].enc, cfg.output_codec)
              THEN /\ fs' = fs
                   /\ ("encoder" \in spawned'[t]) = ("encoder" \in spawned[t])
                   /\ IF att[t] < Len(PlanOf(t))
                      THEN pc'[t] = "acquire" /\ att'[t] = att[t] + 1
                      ELSE pc'[t] = "done" /\ result'[t] = "FAILED"
              ELSE /\ pc'[t] = "running"
                   /\ "encoder" \in spawned'[t]]_vars

\* the videotoolbox attempt of an av1 task was skipped: the task waits for
\* the lease of its second attempt and no encoder has run for it
C32_Witness ==
    \E t \in tree :
        /\ cfg.output_codec = "av1"
        /\ PlanOf(t)[1].enc = "videotoolbox"
        /\ att[t] = 2 /\ pc[t] = "acquire"
        /\ spawned[t] = {"probe"}
        /\ \A p \in FsPaths : p # OutputOf(t) => fs[p] = "absent"

(***************************************************************************)
(* C33: the audio arguments of the first command of an attempt, for a      *)
(* config that names a mode and a rate: -an for off; -c:a copy for copy    *)
(* and for auto; for transcode -c:a copy when the source audio bitrate is  *)
(* known and at most the target, else -c:a <codec> -b:a <rate>; a mode     *)
(* that is none of the four counts as transcode.                           *)
(***************************************************************************)
NamedMode(raw) ==
    CASE raw \in {"off"} -> "off"
      [] raw \in {"copy", "Copy"} -> "copy"
      [] raw \in {"auto", "AUTO "} -> "auto"
      [] OTHER -> "transcode"

RateBps(rate) == IF rate = "64000" THEN 64000 ELSE IF rate = "128k" THEN 128000 ELSE Missing

C33_AudioArgs ==
    (ret # <<>> /\ arg.audio.mode \notin {"none", ""} /\ arg.audio.bitrate # "") =>
        LET mode == NamedMode(arg.audio.mode)
            codec == IF arg.audio.codec = "none" THEN "aac" ELSE arg.audio.codec
            rate == IF arg.audio.bitrate = "none" THEN "128k" ELSE arg.audio.bitrate
            src == arg.source_bps
            known == src # Missing /\ RateBps(rate) # Missing
        IN  ret[1].audio_args =
                CASE mode = "off" -> <<"-an">>
                  [] mode \in {"copy", "auto"} -> <<"-c:a", "copy">>
                  [] OTHER -> IF known /\ src <= RateBps(rate)
                              THEN <<"-c:a", "copy">>
                              ELSE <<"-c:a", codec, "-b:a", rate>>

\* an unrecognised mode with the source audio exactly at the target rate:
\* the command copies the audio
C33_Witness ==
    /\ ret # <<>>
    /\ arg.audio.mode = "loud" /\ arg.audio.bitrate = "64000"
    /\ arg.source_bps = 64000
    /\ ret[1].audio_args = <<"-c:a", "copy">>

(***************************************************************************)
(* C34: an encoder that is not enabled, or that the startup detection      *)
(* marked unavailable, appears in no plan and is never granted a lease     *)
(* (its in_flight stays 0), and its max_concurrent adds nothing to the     *)
(* capacity usable under the global cap.                                   *)
(***************************************************************************)
Usable(e) == cfg.encoders[e].enabled /\ cfg.encoders[e].available

UsableSlots(e) == IF Usable(e) THEN cfg.encoders[e].max_concurrent ELSE 0

C34_DisabledEncoderUnused ==
    /\ \A e \in Encoders :
          ~Usable(e) =>
              /\ in_flight[e] = 0
              /\ \A t \in tree :
                    /\ lease[t] # e
                    /\ \A i \in 1..Len(PlanOf(t)) : PlanOf(t)[i].enc # e
    /\ Cardinality({t \in Files : lease[t] # "none"})
          <= Min(cfg.max_total_concurrent,
                 UsableSlots("nvenc") + UsableSlots("qsv")
                 + UsableSlots("videotoolbox") + UsableSlots("cpu"))

\* nvenc is enabled with all its slots but was not detected: two tasks
\* hold leases of cpu, the one encoder left
C34_Witness ==
    /\ cfg.encoders["nvenc"].enabled /\ ~cfg.encoders["nvenc"].available
    /\ cfg.encoders["nvenc"].max_concurrent = MaxSlots
    /\ \E t, u \in tree : t # u /\ lease[t] = "cpu" /\ lease[u] = "cpu"

(***************************************************************************)
(* C35: a task holds at most one lease: the lease of an attempt is         *)
(* released before the lease of the next attempt is requested, so a task   *)
(* that waits for a lease holds none, and the workers cannot block one     *)
(* another for good: when tasks wait, either a lease is out (and will come *)
(* back) or one of the waiting tasks can be granted its lease now.         *)
(***************************************************************************)
Waiting(t) == pc[t] = "acquire"

C35_OneLeaseNoDeadlock ==
    /\ \A t \in Files : Waiting(t) => lease[t] = "none"
    /\ \A t \in Files : lease[t] # "none" => lease[t] = PlanOf(t)[att[t]].enc
    /\ (\E t \in Files : Waiting(t)) =>
          \/ \E u \in Files : lease[u] # "none"
          \/ \E t \in Files : Waiting(t) /\ CanAcquire(PlanOf(t)[att[t]].enc)

\* a task has given back the lease of its first attempt and waits for the
\* second while the other task runs on the encoder it left
C35_Witness ==
    \E t, u \in Files :
        /\ Waiting(t) /\ att[t] = 2 /\ lease[t] = "none"
        /\ pc[u] = "running" /\ lease[u] = PlanOf(t)[1].enc
        /\ in_flight[lease[u]] = cfg.slots[lease[u]]

(***************************************************************************)
(* C36: when every task has reached a terminal result, in_flight of every  *)
(* encoder and the global in-flight count are 0: every granted lease has   *)
(* been released, whether its attempt succeeded, failed, was skipped or    *)
(* was cancelled.                                                          *)
(***************************************************************************)
AllTerminal == mpc \in {"pool", "returned"} /\ \A f \in tree : Finished(f)

C36_DrainedAtEnd ==
    AllTerminal =>
        /\ \A e \in Encoders : in_flight[e] = 0
        /\ \A t \in Files : lease[t] = "none"

\* the pool has drained after a signal: one task failed after its encoder
\* had run under a lease, the other was cancelled
C36_Witness ==
    /\ AllTerminal /\ shutdown
    /\ \E t, u \in tree :
          /\ result[t] = "FAILED" /\ "encoder" \in spawned[t]
          /\ result[u] = "CANCELLED"

(***************************************************************************)
(* C37: every task terminates: with fair scheduling of the workers and     *)
(* every encoder run ending (by itself or by its timeout), each submitted  *)
(* task reaches a terminal result and run_batch returns.                   *)
(***************************************************************************)
C37_Terminates ==
    <>(mpc = "returned" /\ \A f \in tree : Finished(f) /\ result[f] # "none")

\* run_batch has returned after a task went through its whole plan and
\* failed while the other one succeeded
C37_Witness ==
    /\ mpc = "returned"
    /\ \E t, u \in tree :
          /\ result[t] = "FAILED" /\ att[t] = Len(PlanOf(t)) /\ "encoder" \in spawned[t]
          /\ result[u] \in {"SUCCESS", "SKIP_SIZE"}

(***************************************************************************)
(* C38: for two distinct inputs of one batch the temp path of one is never *)
(* the output path of the other, so the encoder output and the temp-file   *)
(* cleanup of a task never touch the committed output of another task.     *)
(***************************************************************************)
C38_TempNeverAnOutput ==
    \A t, u \in tree : t # u => TempOf(t) # OutputOf(u)

\* what the clash leads to: the output a task committed in this run is
\* gone or half written because another task used it as its temp file
CommittedOutputLost ==
    \E t, u \in tree :
        /\ t # u /\ TempOf(t) = OutputOf(u) /\ OutputOf(t) # OutputOf(u)
        /\ result[u] = "SUCCESS"
        /\ fs[OutputOf(u)] \in {"absent", "partial"}

(***************************************************************************)
(* C39: the shared completed counter is incremented exactly once per       *)
(* processed file, under the lock: no update is lost, the progress values  *)
(* reported are 1, 2, ... each once, and when the pool has drained         *)
(* completed equals total_tasks.                                           *)
(***************************************************************************)
total_tasks == NumWorkers

PoolDrained == \A w \in Workers : progress.wpc[w] \in {"done", "raised"}

C39_CompletedCounter ==
    /\ \A i \in 1..Len(progress.reported) : progress.reported[i] = i
    /\ progress.completed
          = Cardinality({w \in Workers : progress.wpc[w] \in {"log", "done"}})
    /\ PoolDrained =>
          /\ progress.completed = total_tasks
          /\ Len(progress.reported) = total_tasks

\* the same with the workers whose schedule_task raised left out of the
\* count of the files processed
CounterExactWithoutRaise ==
    /\ \A i \in 1..Len(progress.reported) : progress.reported[i] = i
    /\ progress.completed
          = Cardinality({w \in Workers : progress.wpc[w] \in {"log", "done"}})
    /\ PoolDrained =>
          progress.completed
              = Cardinality({w \in Workers : progress.wpc[w] = "done"})

(***************************************************************************)
(* C40: no two entries of a task's plan produce the same encoder command:  *)
(* the command of (E, SW_DECODE_LIMITED) differs from the command of       *)
(* (E, SW_DECODE) whatever fps.limit_on_software_decode and                *)
(* fps.limit_on_software_encode are.                                       *)
(***************************************************************************)
C40_DistinctCommands ==
    ret # <<>> =>
        \A i, j \in 1..Len(ret[1]) : i # j => ret[1][i] # ret[1][j]

=============================================================================
